---- MODULE Spec2Model ----
(***************************************************************************)
(* Client side of the zk-llm-gateway envelope protocol: size classes,      *)
(* padding codec, envelope sealing/opening and the request orchestrator.   *)
(*                                                                         *)
(* Byte strings are sequences of 0..255, text is a sequence of one-        *)
(* character strings.  X25519, HKDF-SHA-256 and ChaCha20-Poly1305 are      *)
(* modelled symbolically (ideal primitives): a derived key is the tuple of *)
(* its inputs and a ciphertext authenticates exactly under the key, nonce  *)
(* and AAD it was produced with.                                           *)
(***************************************************************************)
EXTENDS Integers, Sequences, FiniteSets, TLC

(***************************************************************************)
(* Text and bytes                                                          *)
(***************************************************************************)
Ascii ==
  << " ", "!", "\"", "#", "$", "%", "&", "'", "(", ")", "*", "+", ",", "-", ".", "/",
     "0", "1", "2", "3", "4", "5", "6", "7", "8", "9", ":", ";", "<", "=", ">", "?",
     "@", "A", "B", "C", "D", "E", "F", "G", "H", "I", "J", "K", "L", "M", "N", "O",
     "P", "Q", "R", "S", "T", "U", "V", "W", "X", "Y", "Z", "[", "\\", "]", "^", "_",
     "GRAVE", "a", "b", "c", "d", "e", "f", "g", "h", "i", "j", "k", "l", "m", "n", "o",
     "p", "q", "r", "s", "t", "u", "v", "w", "x", "y", "z", "{", "|", "}", "~" >>

\* (the entry for code 96 is spelled out: the back-quote cannot be written in a string)
Chars == {Ascii[i] : i \in 1..Len(Ascii)} \cup {"\n"}

Ord == [c \in Chars |-> IF c = "\n" THEN 10 ELSE 31 + (CHOOSE i \in 1..Len(Ascii) : Ascii[i] = c)]

Chr(b) == IF b = 10 THEN "\n" ELSE Ascii[b - 31]

IsText(x) == \A i \in DOMAIN x : x[i] \in Chars

\* a function on 1..n as a tuple (the same value; TLC indexes a tuple in
\* constant time)
AsSeq(f) == f \o << >>

Repeat(c, n) == AsSeq([i \in 1..n |-> c])

\* Buffer.from(text, 'utf8') on ASCII text
Utf8Encode(s) == AsSeq([i \in 1..Len(s) |-> Ord[s[i]]])

\* buf.toString('utf8'); bytes outside printable ASCII decode to no JSON text
Utf8Decodable(b) == \A i \in 1..Len(b) : b[i] = 10 \/ (b[i] >= 32 /\ b[i] <= 126)

Utf8Decode(b) == AsSeq([i \in 1..Len(b) |-> Chr(b[i])])

IsSpace(c) == c = " " \/ c = "\n"

\* String.prototype.trim
Trim(s) ==
  LET keep == {i \in 1..Len(s) : ~IsSpace(s[i])}
  IN  IF keep = {} THEN << >>
      ELSE LET lo == CHOOSE i \in keep : \A j \in keep : i <= j
               hi == CHOOSE i \in keep : \A j \in keep : j <= i
           IN  SubSeq(s, lo, hi)

\* String.prototype.toLowerCase
ToLowerCase(s) ==
  AsSeq([i \in 1..Len(s) |->
     LET Lower(code) == IF code >= 65 /\ code <= 90 THEN Chr(code + 32) ELSE s[i]
     IN  Lower(Ord[s[i]])])

(***************************************************************************)
(* Base64 (Buffer.toString('base64') / Buffer.from(text, 'base64'))        *)
(***************************************************************************)
B64Alphabet ==
  << "A", "B", "C", "D", "E", "F", "G", "H", "I", "J", "K", "L", "M", "N", "O", "P",
     "Q", "R", "S", "T", "U", "V", "W", "X", "Y", "Z", "a", "b", "c", "d", "e", "f",
     "g", "h", "i", "j", "k", "l", "m", "n", "o", "p", "q", "r", "s", "t", "u", "v",
     "w", "x", "y", "z", "0", "1", "2", "3", "4", "5", "6", "7", "8", "9", "+", "/" >>

B64Index == [c \in {B64Alphabet[i] : i \in 1..64} |-> (CHOOSE i \in 1..64 : B64Alphabet[i] = c) - 1]

ByteAt(b, i) == IF i <= Len(b) THEN b[i] ELSE 0

Pow(base, e) == IF e = 0 THEN 1 ELSE IF e = 1 THEN base ELSE IF e = 2 THEN base * base ELSE base * base * base

Base64Encode(b) ==
  LET n == Len(b)
      groups == (n + 2) \div 3
  IN  AsSeq([j \in 1..(4 * groups) |->
         LET g == (j - 1) \div 4
             pos == (j - 1) % 4
             val == ByteAt(b, 3 * g + 1) * 65536 + ByteAt(b, 3 * g + 2) * 256 + ByteAt(b, 3 * g + 3)
         IN  IF pos = 2 /\ 3 * g + 2 > n THEN "="
             ELSE IF pos = 3 /\ 3 * g + 3 > n THEN "="
             ELSE B64Alphabet[((val \div Pow(64, 3 - pos)) % 64) + 1]])

\* Node's decoder never throws: it stops at the first '=' and skips
\* characters outside the alphabet.
Base64Decode(s) ==
  LET Upto(stops) == IF stops = {} THEN Len(s) ELSE (CHOOSE i \in stops : \A j \in stops : i <= j) - 1
      Bytes(sx, index) ==
        AsSeq([k \in 1..((Len(sx) * 3) \div 4) |->
           LET SextetAt(i) == IF i <= Len(sx) THEN index[sx[i]] ELSE 0
               Byte(g, pos) ==
                 ((SextetAt(4 * g + 1) * 262144 + SextetAt(4 * g + 2) * 4096
                   + SextetAt(4 * g + 3) * 64 + SextetAt(4 * g + 4)) \div Pow(256, 2 - pos)) % 256
           IN  Byte((k - 1) \div 3, (k - 1) % 3)])
  IN  Bytes(SelectSeq(SubSeq(s, 1, Upto({i \in 1..Len(s) : s[i] = "="})), LAMBDA c : c \in DOMAIN B64Index),
            B64Index)

(***************************************************************************)
(* Errors (errors.ts): a thrown error is a record tagged with its class    *)
(***************************************************************************)
Throw(name) == [threw |-> TRUE, name |-> name]

Return(v) == [threw |-> FALSE, value |-> v]

PayloadTooLarge(actual, limit) == [threw |-> TRUE, name |-> "PayloadTooLarge", actual |-> actual, limit |-> limit]

HttpError(statusCode) == [threw |-> TRUE, name |-> "HttpError", statusCode |-> statusCode]

GatewayError(code, message) == [threw |-> TRUE, name |-> "GatewayError", code |-> code, message |-> message]

\* the message says whether the pool had no entry to give ("exhausted") or
\* the selected entry was not a ticket ("invalid")
TicketExhausted(message) == [threw |-> TRUE, name |-> "TicketExhausted", message |-> message]

(***************************************************************************)
(* JSON values, JSON.stringify and JSON.parse                              *)
(* A value is a tagged record; an object is its members in insertion       *)
(* order.  Numbers are integers, text is ASCII.                            *)
(***************************************************************************)
JNull == [t |-> "null"]

JBool(b) == [t |-> "bool", b |-> b]

JNum(n) == [t |-> "num", n |-> n]

JStr(s) == [t |-> "str", s |-> s]

JArr(a) == [t |-> "arr", a |-> a]

JObj(m) == [t |-> "obj", m |-> m]

Member(k, v) == [k |-> k, v |-> v]

HasKey(o, k) == o.t = "obj" /\ \E i \in 1..Len(o.m) : o.m[i].k = k

\* o[k]; a missing property reads as undefined
Undefined == [t |-> "undefined"]

\* a variable or field that holds nothing yet
None == [t |-> "none"]

Get(o, k) ==
  IF HasKey(o, k) THEN o.m[CHOOSE i \in 1..Len(o.m) : o.m[i].k = k].v ELSE Undefined

RECURSIVE Digits(_)
Digits(n) == IF n < 10 THEN << Chr(48 + n) >> ELSE Digits(n \div 10) \o << Chr(48 + (n % 10)) >>

NumberText(n) == IF n < 0 THEN << "-" >> \o Digits(0 - n) ELSE Digits(n)

NeedsEscape(c) == c = "\"" \/ c = "\\" \/ c = "\n"

RECURSIVE EscapeFrom(_, _)
EscapeFrom(s, i) ==
  IF i > Len(s) THEN << >>
  ELSE (IF s[i] = "\n" THEN << "\\", "n" >>
        ELSE IF NeedsEscape(s[i]) THEN << "\\", s[i] >>
        ELSE << s[i] >>) \o EscapeFrom(s, i + 1)

QuoteText(s) ==
  << "\"" >> \o (IF \A i \in 1..Len(s) : ~NeedsEscape(s[i]) THEN s ELSE EscapeFrom(s, 1)) \o << "\"" >>

\* the properties JSON.stringify writes: those whose value is not undefined
DefinedMembers(m) == SelectSeq(m, LAMBDA x : x.v.t # "undefined")

RECURSIVE JsonStringify(_)
RECURSIVE StringifyElements(_, _)
RECURSIVE StringifyMembers(_, _)
JsonStringify(v) ==
  CASE v.t = "null" -> << "n", "u", "l", "l" >>
    [] v.t = "bool" -> IF v.b THEN << "t", "r", "u", "e" >> ELSE << "f", "a", "l", "s", "e" >>
    [] v.t = "num" -> NumberText(v.n)
    [] v.t = "str" -> QuoteText(v.s)
    [] v.t = "arr" -> << "[" >> \o StringifyElements(v.a, 1) \o << "]" >>
    [] v.t = "obj" -> << "{" >> \o StringifyMembers(DefinedMembers(v.m), 1) \o << "}" >>

StringifyElements(a, i) ==
  IF i > Len(a) THEN << >>
  ELSE (IF i > 1 THEN << "," >> ELSE << >>) \o JsonStringify(a[i]) \o StringifyElements(a, i + 1)

StringifyMembers(m, i) ==
  IF i > Len(m) THEN << >>
  ELSE (IF i > 1 THEN << "," >> ELSE << >>) \o QuoteText(m[i].k) \o << ":" >>
       \o JsonStringify(m[i].v) \o StringifyMembers(m, i + 1)

ParseFail == [ok |-> FALSE]

Parsed(v, next) == [ok |-> TRUE, v |-> v, next |-> next]

CharAt(s, i) == IF i >= 1 /\ i <= Len(s) THEN s[i] ELSE "EOF"

IsDigit(c) == c \in {"0", "1", "2", "3", "4", "5", "6", "7", "8", "9"}

RECURSIVE SkipWs(_, _)
SkipWs(s, i) == IF IsSpace(CharAt(s, i)) THEN SkipWs(s, i + 1) ELSE i

StartsWith(s, i, w) == i + Len(w) - 1 <= Len(s) /\ SubSeq(s, i, i + Len(w) - 1) = w

RECURSIVE ParseDigits(_, _, _)
ParseDigits(s, i, acc) ==
  IF IsDigit(CharAt(s, i)) THEN ParseDigits(s, i + 1, acc * 10 + (Ord[s[i]] - 48)) ELSE Parsed(acc, i)

ParseNumber(s, i) ==
  LET Signed(neg, j) ==
        IF ~IsDigit(CharAt(s, j)) THEN ParseFail
        ELSE IF CharAt(s, j) = "0" /\ IsDigit(CharAt(s, j + 1)) THEN ParseFail
        ELSE LET Whole(r) ==
                   IF CharAt(s, r.next) \in {".", "e", "E"} THEN ParseFail
                   ELSE Parsed(JNum(IF neg THEN 0 - r.v ELSE r.v), r.next)
             IN  Whole(ParseDigits(s, j, 0))
  IN  Signed(CharAt(s, i) = "-", IF CharAt(s, i) = "-" THEN i + 1 ELSE i)

\* text of a string literal whose opening quote is at i - 1
RECURSIVE ParseTextFrom(_, _, _)
ParseTextFrom(s, i, acc) ==
  LET Upto(first) ==
        LET Piece(piece) ==
              IF s[first] = "\"" THEN Parsed(piece, first + 1)
              ELSE IF s[first] = "\n" THEN ParseFail
              ELSE IF CharAt(s, first + 1) \in {"\"", "\\", "/"}
                     THEN ParseTextFrom(s, first + 2, piece \o << s[first + 1] >>)
              ELSE IF CharAt(s, first + 1) = "n" THEN ParseTextFrom(s, first + 2, piece \o << "\n" >>)
              ELSE ParseFail
        IN  Piece(acc \o SubSeq(s, i, first - 1))
      Scan(specials) ==
        IF specials = {} THEN ParseFail
        ELSE Upto(CHOOSE j \in specials : \A k \in specials : j <= k)
  IN  Scan({j \in i..Len(s) : s[j] = "\"" \/ s[j] = "\\" \/ s[j] = "\n"})

\* JSON.parse keeps the position of the first occurrence of a key and the
\* value of the last
PutMember(m, k, v) ==
  IF \E i \in 1..Len(m) : m[i].k = k
    THEN AsSeq([i \in 1..Len(m) |-> IF m[i].k = k THEN Member(k, v) ELSE m[i]])
    ELSE Append(m, Member(k, v))

RECURSIVE ParseValue(_, _)
RECURSIVE ParseElements(_, _, _)
RECURSIVE ParseMembers(_, _, _)
ParseValue(s, i0) ==
  LET Literal(r) == IF r.ok THEN Parsed(JStr(r.v), r.next) ELSE ParseFail
      Object(i, j) == IF CharAt(s, j) = "}" THEN Parsed(JObj(<< >>), j + 1) ELSE ParseMembers(s, i + 1, << >>)
      Array(i, j) == IF CharAt(s, j) = "]" THEN Parsed(JArr(<< >>), j + 1) ELSE ParseElements(s, i + 1, << >>)
      At(i, c) ==
        CASE c = "{" -> Object(i, SkipWs(s, i + 1))
          [] c = "[" -> Array(i, SkipWs(s, i + 1))
          [] c = "\"" -> Literal(ParseTextFrom(s, i + 1, << >>))
          [] c = "t" -> IF StartsWith(s, i, << "t", "r", "u", "e" >>) THEN Parsed(JBool(TRUE), i + 4) ELSE ParseFail
          [] c = "f" -> IF StartsWith(s, i, << "f", "a", "l", "s", "e" >>) THEN Parsed(JBool(FALSE), i + 5) ELSE ParseFail
          [] c = "n" -> IF StartsWith(s, i, << "n", "u", "l", "l" >>) THEN Parsed(JNull, i + 4) ELSE ParseFail
          [] c = "-" \/ IsDigit(c) -> ParseNumber(s, i)
          [] OTHER -> ParseFail
  IN  At(SkipWs(s, i0), CharAt(s, SkipWs(s, i0)))

ParseElements(s, i, acc) ==
  LET Separator(r, j) ==
        IF CharAt(s, j) = "," THEN ParseElements(s, j + 1, Append(acc, r.v))
        ELSE IF CharAt(s, j) = "]" THEN Parsed(JArr(Append(acc, r.v)), j + 1)
        ELSE ParseFail
      Element(r) == IF ~r.ok THEN ParseFail ELSE Separator(r, SkipWs(s, r.next))
  IN  Element(ParseValue(s, i))

ParseMembers(s, i0, acc) ==
  LET Separator(j, m) ==
        IF CharAt(s, j) = "," THEN ParseMembers(s, j + 1, m)
        ELSE IF CharAt(s, j) = "}" THEN Parsed(JObj(m), j + 1)
        ELSE ParseFail
      Value(k, r) == IF ~r.ok THEN ParseFail ELSE Separator(SkipWs(s, r.next), PutMember(acc, k.v, r.v))
      Colon(k, c) == IF CharAt(s, c) # ":" THEN ParseFail ELSE Value(k, ParseValue(s, c + 1))
      Key(k) == IF ~k.ok THEN ParseFail ELSE Colon(k, SkipWs(s, k.next))
      Name(i) == IF CharAt(s, i) # "\"" THEN ParseFail ELSE Key(ParseTextFrom(s, i + 1, << >>))
  IN  Name(SkipWs(s, i0))

\* JSON.parse(text): the value, or a thrown SyntaxError
JsonParse(s) ==
  LET Whole(r) == IF r.ok /\ SkipWs(s, r.next) = Len(s) + 1 THEN Return(r.v) ELSE Throw("SyntaxError")
  IN  Whole(ParseValue(s, 1))

(***************************************************************************)
(* Size-class table (tokenClass.ts)                                        *)
(***************************************************************************)
C256 == << "c", "2", "5", "6" >>

C512 == << "c", "5", "1", "2" >>

C1024 == << "c", "1", "0", "2", "4" >>

C2048 == << "c", "2", "0", "4", "8" >>

C4096 == << "c", "4", "0", "9", "6" >>

TokenClass == {C256, C512, C1024, C2048, C4096}

\* faulty variant: the text is trimmed but its case is kept
parseTokenClassCaseSensitive(value) ==
  LET Class(v) ==
      IF v = C256 \/ v = << "2", "5", "6" >> THEN Return(C256)
      ELSE IF v = C512 \/ v = << "5", "1", "2" >> THEN Return(C512)
      ELSE IF v = C1024 \/ v = << "1", "0", "2", "4" >> THEN Return(C1024)
      ELSE IF v = C2048 \/ v = << "2", "0", "4", "8" >> THEN Return(C2048)
      ELSE IF v = C4096 \/ v = << "4", "0", "9", "6" >> THEN Return(C4096)
      ELSE Throw("InvalidTokenClass")
  IN  Class(Trim(value))

parseTokenClass(value) ==
  LET Class(v) ==
      IF v = C256 \/ v = << "2", "5", "6" >> THEN Return(C256)
      ELSE IF v = C512 \/ v = << "5", "1", "2" >> THEN Return(C512)
      ELSE IF v = C1024 \/ v = << "1", "0", "2", "4" >> THEN Return(C1024)
      ELSE IF v = C2048 \/ v = << "2", "0", "4", "8" >> THEN Return(C2048)
      ELSE IF v = C4096 \/ v = << "4", "0", "9", "6" >> THEN Return(C4096)
      ELSE Throw("InvalidTokenClass")
  IN  Class(ToLowerCase(Trim(value)))

tokenClassId(tc) ==
  CASE tc = C256 -> 1
    [] tc = C512 -> 2
    [] tc = C1024 -> 3
    [] tc = C2048 -> 4
    [] tc = C4096 -> 5

maxPromptBytes(tc) ==
  CASE tc = C256 -> 2 * 1024
    [] tc = C512 -> 4 * 1024
    [] tc = C1024 -> 8 * 1024
    [] tc = C2048 -> 16 * 1024
    [] tc = C4096 -> 32 * 1024

\* faulty variant: the request lengths double from class to class
requestPaddedLenDoubling(tc) ==
  CASE tc = C256 -> 8 * 1024
    [] tc = C512 -> 16 * 1024
    [] tc = C1024 -> 32 * 1024
    [] tc = C2048 -> 64 * 1024
    [] tc = C4096 -> 128 * 1024

requestPaddedLen(tc) ==
  CASE tc = C256 -> 8 * 1024
    [] tc = C512 -> 12 * 1024
    [] tc = C1024 -> 20 * 1024
    [] tc = C2048 -> 36 * 1024
    [] tc = C4096 -> 68 * 1024

responsePaddedLen(tc) ==
  CASE tc = C256 -> 8 * 1024
    [] tc = C512 -> 16 * 1024
    [] tc = C1024 -> 32 * 1024
    [] tc = C2048 -> 64 * 1024
    [] tc = C4096 -> 128 * 1024

maxOutputTokensHint(tc) ==
  CASE tc = C256 -> 256
    [] tc = C512 -> 512
    [] tc = C1024 -> 1024
    [] tc = C2048 -> 2048
    [] tc = C4096 -> 4096

(***************************************************************************)
(* Padding codec (padding.ts)                                              *)
(***************************************************************************)
MAGIC == << 90, 75, 76, 71 >>

HEADER_LEN == 8

\* the two filler bytes, ' ' and '\n'
Filler == << 32, 10 >>

\* A buffer is kept as its leading bytes and the number of filler bytes
\* that follow them: byte head[i] at offset i - 1, and after the head the
\* k-th byte (k = 0, 1, ...) is Filler[k % 2].
Buf(head, fill) == [head |-> head, fill |-> fill]

BufLen(b) == Len(b.head) + b.fill

BufAt(b, i) == IF i <= Len(b.head) THEN b.head[i] ELSE Filler[((i - Len(b.head) - 1) % Len(Filler)) + 1]

\* buf.subarray(from - 1, to)
BufSlice(b, from, to) == AsSeq([k \in 1..(to - from + 1) |-> BufAt(b, from + k - 1)])

\* out.writeUInt32LE(n, 4)
UInt32LE(n) == AsSeq([i \in 1..4 |-> (n \div Pow(256, i - 1)) % 256])

\* faulty variant: the filler is sized without leaving room for the header
padPayloadNoHeaderRoom(payload, targetLen) ==
  IF targetLen < HEADER_LEN THEN Throw("InvalidPadding")
  ELSE LET maxPayload == targetLen - HEADER_LEN
           n == Len(payload)
       IN  IF n > maxPayload THEN PayloadTooLarge(n, maxPayload)
           ELSE Return(Buf(MAGIC \o UInt32LE(n) \o payload, targetLen - n))

\* faulty variant: the length is written most significant byte first
padPayloadBigEndian(payload, targetLen) ==
  IF targetLen < HEADER_LEN THEN Throw("InvalidPadding")
  ELSE IF Len(payload) > targetLen - HEADER_LEN THEN PayloadTooLarge(Len(payload), targetLen - HEADER_LEN)
  ELSE Return(Buf(MAGIC \o AsSeq([i \in 1..4 |-> UInt32LE(Len(payload))[5 - i]]) \o payload,
                  targetLen - (8 + Len(payload))))

\* faulty variant: a payload that fills the frame exactly is refused
padPayloadRefusesExactFit(payload, targetLen) ==
  IF targetLen < HEADER_LEN THEN Throw("InvalidPadding")
  ELSE IF Len(payload) >= targetLen - HEADER_LEN THEN PayloadTooLarge(Len(payload), targetLen - HEADER_LEN)
  ELSE Return(Buf(MAGIC \o UInt32LE(Len(payload)) \o payload, targetLen - (8 + Len(payload))))

\* faulty variant: the filler is indexed by the offset in the frame, not by
\* the count of filler bytes written
padPayloadFillerByOffset(payload, targetLen) ==
  IF targetLen < HEADER_LEN THEN Throw("InvalidPadding")
  ELSE IF Len(payload) > targetLen - HEADER_LEN THEN PayloadTooLarge(Len(payload), targetLen - HEADER_LEN)
  ELSE Return(Buf(MAGIC \o UInt32LE(Len(payload)) \o payload
                    \o AsSeq([k \in 1..(targetLen - (8 + Len(payload))) |->
                                Filler[((8 + Len(payload) + k - 1) % Len(Filler)) + 1]]),
                  0))

padPayload(payload, targetLen) ==
  IF targetLen < HEADER_LEN THEN Throw("InvalidPadding")
  ELSE LET maxPayload == targetLen - HEADER_LEN
           n == Len(payload)
       IN  IF n > maxPayload THEN PayloadTooLarge(n, maxPayload)
           ELSE Return(Buf(MAGIC \o UInt32LE(n) \o payload, targetLen - (8 + n)))

\* faulty variant: the payload is sliced one byte early
unpadPayloadOffByOne(padded) ==
  IF BufLen(padded) < HEADER_LEN THEN Throw("InvalidPadding")
  ELSE IF BufSlice(padded, 1, 4) # MAGIC THEN Throw("InvalidPadding")
  ELSE LET length == BufAt(padded, 5) + 256 * BufAt(padded, 6) + 65536 * BufAt(padded, 7)
       IN  IF BufAt(padded, 8) > 0 \/ length > BufLen(padded) - HEADER_LEN THEN Throw("InvalidPadding")
           ELSE Return(BufSlice(padded, 8, 7 + length))

\* faulty variant: the tag is not looked at
unpadPayloadIgnoresTag(padded) ==
  IF BufLen(padded) < HEADER_LEN THEN Throw("InvalidPadding")
  ELSE IF BufAt(padded, 8) > 0
          \/ BufAt(padded, 5) + 256 * BufAt(padded, 6) + 65536 * BufAt(padded, 7) > BufLen(padded) - HEADER_LEN
       THEN Throw("InvalidPadding")
       ELSE Return(BufSlice(padded, 9, 8 + BufAt(padded, 5) + 256 * BufAt(padded, 6) + 65536 * BufAt(padded, 7)))

\* readUInt32LE(4) is compared without forming a number above 2^31: with a
\* non-zero top byte the declared length exceeds every buffer length here
unpadPayload(padded) ==
  IF BufLen(padded) < HEADER_LEN THEN Throw("InvalidPadding")
  ELSE IF BufSlice(padded, 1, 4) # MAGIC THEN Throw("InvalidPadding")
  ELSE LET length == BufAt(padded, 5) + 256 * BufAt(padded, 6) + 65536 * BufAt(padded, 7)
       IN  IF BufAt(padded, 8) > 0 \/ length > BufLen(padded) - HEADER_LEN THEN Throw("InvalidPadding")
           ELSE Return(BufSlice(padded, 9, 8 + length))

(***************************************************************************)
(* Envelope cryptography (crypto.ts)                                       *)
(***************************************************************************)
KeyDirectionRequest == 1

KeyDirectionResponse == 2

X25519_SPKI_PREFIX == << 48, 42, 48, 5, 6, 3, 43, 101, 110, 3, 33, 0 >>

\* Key pairs are numbered; 0 is the gateway's static pair, the others are
\* the pairs crypto.generateKeyPairSync('x25519') hands out.
GatewayKeyId == 0

PublicKeyBytes(k) == AsSeq([i \in 1..32 |-> (k * 37 + i) % 256])

\* publicKey.export({format: 'der', type: 'spki'})
ExportSpki(k) == X25519_SPKI_PREFIX \o PublicKeyBytes(k)

x25519SpkiFromRaw(raw32) ==
  IF Len(raw32) # 32 THEN Throw("CryptoError") ELSE Return(X25519_SPKI_PREFIX \o raw32)

x25519RawFromSpki(spkiDer) ==
  IF Len(spkiDer) # Len(X25519_SPKI_PREFIX) + 32 THEN Throw("CryptoError")
  ELSE IF SubSeq(spkiDer, 1, Len(X25519_SPKI_PREFIX)) # X25519_SPKI_PREFIX THEN Throw("CryptoError")
  ELSE Return(SubSeq(spkiDer, Len(X25519_SPKI_PREFIX) + 1, Len(spkiDer)))

\* GatewayPublicKey.fromBase64 / constructor
GatewayPublicKeyFromBase64(b64) ==
  LET Key(raw) == IF Len(raw) # 32 THEN Throw("InvalidGatewayPublicKey") ELSE Return([raw |-> raw])
  IN  Key(Base64Decode(Trim(b64)))

\* crypto.diffieHellman: X25519 of a private key with a public key; the
\* secret of the pairs a and b is the same from either side
diffieHellman(privateKey, publicRaw) == [x25519 |-> {PublicKeyBytes(privateKey), publicRaw}, len |-> 32]

\* faulty variant: both directions are labelled "/req"
hkdfInfoOneLabel(tokenClass, direction) ==
  Utf8Encode(<< "z", "k", "-", "l", "l", "m", "-", "g", "a", "t", "e", "w", "a", "y", "-",
                "e", "n", "v", "e", "l", "o", "p", "e", "-", "v", "1", "/", "r", "e", "q" >>)
    \o << tokenClassId(tokenClass) % 256 >>

hkdfInfo(tokenClass, direction) ==
  LET prefix == Utf8Encode(<< "z", "k", "-", "l", "l", "m", "-", "g", "a", "t", "e", "w", "a", "y", "-",
                              "e", "n", "v", "e", "l", "o", "p", "e", "-", "v", "1" >>)
      dir == IF direction = KeyDirectionRequest THEN Utf8Encode(<< "/", "r", "e", "q" >>)
             ELSE Utf8Encode(<< "/", "r", "e", "s", "p" >>)
  IN  prefix \o dir \o << tokenClassId(tokenClass) % 256 >>

\* HKDF-SHA-256 as an ideal key-derivation function of (ikm, salt, info)
hkdfSha256(ikm, salt, info, len) == [hkdf |-> << ikm, salt, info >>, len |-> len]

deriveKey(sharedSecret, tokenClass, direction) ==
  hkdfSha256(sharedSecret, Repeat(0, 32), hkdfInfo(tokenClass, direction), 32)

\* faulty variant: the direction byte is always the request direction
makeAadNoDirection(v, tokenClass, direction) == << v % 256, tokenClassId(tokenClass) % 256, KeyDirectionRequest >>

makeAad(v, tokenClass, direction) == << v % 256, tokenClassId(tokenClass) % 256, direction % 256 >>

\* ChaCha20-Poly1305 as an ideal AEAD: the result (ciphertext || 16-byte
\* tag) is the tuple of what was sealed, and it is as long as the
\* plaintext plus the tag
AUTH_TAG_LEN == 16

chacha20poly1305Encrypt(key, nonce, plaintext, aad) ==
  IF key.len # 32 \/ Len(nonce) # 12 THEN Throw("CryptoError")
  ELSE Return([aead |-> << key, nonce, aad >>, pt |-> plaintext, len |-> BufLen(plaintext) + AUTH_TAG_LEN])

\* bytes that no AEAD call produced (any other byte string)
RawBytes(b) == [bytes |-> b, len |-> Len(b)]

IsAead(ct) == "aead" \in DOMAIN ct

chacha20poly1305Decrypt(key, nonce, ciphertextAndTag, aad) ==
  IF ciphertextAndTag.len < AUTH_TAG_LEN THEN Throw("CryptoError")
  ELSE IF key.len # 32 \/ Len(nonce) # 12 THEN Throw("CryptoError")
  ELSE IF ~IsAead(ciphertextAndTag) THEN Throw("CryptoError")
  ELSE IF ciphertextAndTag.aead # << key, nonce, aad >> THEN Throw("CryptoError")
  ELSE Return(ciphertextAndTag.pt)

\* base64 text of an AEAD result is kept as that result; any other text
\* is a JStr
B64OfCipher(ct) == [t |-> "str", b64of |-> ct]

IsCipherText(x) == x.t = "str" /\ "b64of" \in DOMAIN x

DecodeCipher(x) == IF IsCipherText(x) THEN x.b64of ELSE RawBytes(Base64Decode(Trim(x.s)))

\* String(x)
ToStringJs(x) ==
  CASE x.t = "str" -> x.s
    [] x.t = "undefined" -> << "u", "n", "d", "e", "f", "i", "n", "e", "d" >>
    [] x.t = "null" -> << "n", "u", "l", "l" >>
    [] x.t = "num" -> NumberText(x.n)
    [] x.t = "bool" -> IF x.b THEN << "t", "r", "u", "e" >> ELSE << "f", "a", "l", "s", "e" >>
    [] OTHER -> << "[", "o", "b", "j", "e", "c", "t", " ", "O", "b", "j", "e", "c", "t", "]" >>

\* a ?? b
Coalesce(a, b) == IF a.t = "undefined" \/ a.t = "null" THEN b ELSE a

\* input?.key
OptGet(input, k) == IF input.t = "obj" THEN Get(input, k) ELSE Undefined

K_v == << "v" >>

K_version == << "v", "e", "r", "s", "i", "o", "n" >>

K_token_class == << "t", "o", "k", "e", "n", "_", "c", "l", "a", "s", "s" >>

K_eph_pubkey_b64 == << "e", "p", "h", "_", "p", "u", "b", "k", "e", "y", "_", "b", "6", "4" >>

K_kem_pub_b64 == << "k", "e", "m", "_", "p", "u", "b", "_", "b", "6", "4" >>

K_nonce_b64 == << "n", "o", "n", "c", "e", "_", "b", "6", "4" >>

K_ciphertext_b64 == << "c", "i", "p", "h", "e", "r", "t", "e", "x", "t", "_", "b", "6", "4" >>

Envelope(v, tokenClass, eph, nonce, ct) ==
  JObj(<< Member(K_v, v), Member(K_token_class, tokenClass), Member(K_eph_pubkey_b64, eph),
          Member(K_nonce_b64, nonce), Member(K_ciphertext_b64, ct) >>)

\* faulty variant: only the spellings v and eph_pubkey_b64 are read
normalizeEnvelopeNoAlias(input) ==
  LET Fields(v, eph, tc, ct) ==
        IF tc.threw THEN tc
        ELSE Return(Envelope(v, JStr(tc.value), eph,
                             JStr(ToStringJs(Coalesce(OptGet(input, K_nonce_b64), JStr(<< >>)))),
                             IF IsCipherText(ct) THEN ct ELSE JStr(ToStringJs(ct))))
      Required(v, eph) ==
        IF v.t # "num" THEN Throw("ProtocolError")
        ELSE IF eph.t # "str" THEN Throw("ProtocolError")
        ELSE Fields(v, eph, parseTokenClass(ToStringJs(OptGet(input, K_token_class))),
                    Coalesce(OptGet(input, K_ciphertext_b64), JStr(<< >>)))
  IN  Required(OptGet(input, K_v), OptGet(input, K_eph_pubkey_b64))

normalizeEnvelope(input) ==
  LET Fields(v, eph, tc, ct) ==
        IF tc.threw THEN tc
        ELSE Return(Envelope(v, JStr(tc.value), eph,
                             JStr(ToStringJs(Coalesce(OptGet(input, K_nonce_b64), JStr(<< >>)))),
                             IF IsCipherText(ct) THEN ct ELSE JStr(ToStringJs(ct))))
      Required(v, eph) ==
        IF v.t # "num" THEN Throw("ProtocolError")
        ELSE IF eph.t # "str" THEN Throw("ProtocolError")
        ELSE Fields(v, eph, parseTokenClass(ToStringJs(OptGet(input, K_token_class))),
                    Coalesce(OptGet(input, K_ciphertext_b64), JStr(<< >>)))
  IN  Required(Coalesce(OptGet(input, K_v), OptGet(input, K_version)),
               Coalesce(OptGet(input, K_eph_pubkey_b64), OptGet(input, K_kem_pub_b64)))

\* sealJson with the two random draws named: the key pair generated at
\* line 162 and the nonce drawn at line 175
sealJson(gatewayPk, tokenClass, payload, ephKey, nonce) ==
  LET v == 1
      Sealed(ephPubRaw, reqKey, respKey, ct) ==
        IF ct.threw THEN ct
        ELSE Return([envelope |-> Envelope(JNum(v), JStr(tokenClass),
                                          JStr(Base64Encode(ephPubRaw.value)),
                                          JStr(Base64Encode(nonce)),
                                          B64OfCipher(ct.value)),
                     state |-> [tokenClass |-> tokenClass,
                                ephPubkey |-> ephPubRaw.value,
                                reqKey |-> reqKey,
                                respKey |-> respKey]])
      Keys(padded, ephPubRaw, reqKey, respKey) ==
        Sealed(ephPubRaw, reqKey, respKey,
               chacha20poly1305Encrypt(reqKey, nonce, padded.value, makeAad(v, tokenClass, KeyDirectionRequest)))
      Shared(padded, ephPubRaw, shared) ==
        IF shared.len # 32 THEN Throw("CryptoError")
        ELSE Keys(padded, ephPubRaw, deriveKey(shared, tokenClass, KeyDirectionRequest),
                  deriveKey(shared, tokenClass, KeyDirectionResponse))
      KeyPair(padded, ephPubRaw, gwSpki) ==
        IF ephPubRaw.threw THEN ephPubRaw
        ELSE IF gwSpki.threw THEN gwSpki
        ELSE Shared(padded, ephPubRaw, diffieHellman(ephKey, x25519RawFromSpki(gwSpki.value).value))
      Padded(padded) ==
        IF padded.threw THEN padded
        ELSE KeyPair(padded, x25519RawFromSpki(ExportSpki(ephKey)), x25519SpkiFromRaw(gatewayPk.raw))
  IN  Padded(padPayload(Utf8Encode(JsonStringify(payload)), requestPaddedLen(tokenClass)))

\* faulty variant: only the byte that enters the AAD is compared
VersionSupportedLowByte(v) == v % 256 = 1

\* line 201: envelope.v !== 1
VersionSupported(v) == v = 1

\* faulty variant: the declared class is not compared
ClassMatchesAny(tokenClass, state) == tokenClass \in TokenClass

\* line 202: envelope.token_class !== state.tokenClass
ClassMatches(tokenClass, state) == tokenClass = state.tokenClass

\* faulty variant: only the lengths are compared
EphMatchesLengthOnly(state, ephPub) == Len(state.ephPubkey) = Len(ephPub)

\* line 210: Buffer.from(state.ephPubkey).equals(ephPub)
EphMatches(state, ephPub) == state.ephPubkey = ephPub

openJson(input, state) ==
  LET Parse(parsed) == IF parsed.threw THEN Throw("ProtocolError") ELSE parsed
      Unpadded(raw) ==
        IF raw.threw THEN raw
        ELSE IF ~Utf8Decodable(raw.value) THEN Throw("ProtocolError")
        ELSE Parse(JsonParse(Utf8Decode(raw.value)))
      Decrypted(padded) == IF padded.threw THEN padded ELSE Unpadded(unpadPayload(padded.value))
      Decoded(v, tc, ephPub, nonce, ct) ==
        IF Len(ephPub) # 32 \/ Len(nonce) # 12 THEN Throw("CryptoError")
        ELSE IF ~EphMatches(state, ephPub) THEN Throw("CryptoError")
        ELSE Decrypted(chacha20poly1305Decrypt(state.respKey, nonce, ct, makeAad(v, tc, KeyDirectionResponse)))
      Header(envelope, v, tc) ==
        IF ~VersionSupported(v) THEN Throw("CryptoError")
        ELSE IF ~ClassMatches(tc, state) THEN Throw("CryptoError")
        ELSE Decoded(v, tc,
                     Base64Decode(Trim(ToStringJs(Get(envelope, K_eph_pubkey_b64)))),
                     Base64Decode(Trim(ToStringJs(Get(envelope, K_nonce_b64)))),
                     DecodeCipher(Get(envelope, K_ciphertext_b64)))
      Normalized(n) ==
        IF n.threw THEN n ELSE Header(n.value, Get(n.value, K_v).n, Get(n.value, K_token_class).s)
  IN  Normalized(normalizeEnvelope(input))

(***************************************************************************)
(* The peer: how a gateway (tests/crypto.test.ts, encryptResponse) builds  *)
(* the ciphertext of a reply                                               *)
(***************************************************************************)
GatewaySealRaw(key, nonce, aad, raw, padTo) ==
  chacha20poly1305Encrypt(key, nonce, padPayload(raw, padTo).value, aad)

GatewaySeal(key, nonce, aad, payload, padTo) ==
  GatewaySealRaw(key, nonce, aad, Utf8Encode(JsonStringify(payload)), padTo)

encryptResponse(key, tokenClass, payload, nonce) ==
  [nonceB64 |-> JStr(Base64Encode(nonce)),
   ciphertextB64 |-> B64OfCipher(GatewaySeal(key, nonce, << 1, tokenClassId(tokenClass), 2 >>, payload,
                                             responsePaddedLen(tokenClass)).value)]

(***************************************************************************)
(* client.ts: the pure parts of GatewayClient                              *)
(***************************************************************************)
K_kind == << "k", "i", "n", "d" >>

K_response == << "r", "e", "s", "p", "o", "n", "s", "e" >>

K_error == << "e", "r", "r", "o", "r" >>

K_code == << "c", "o", "d", "e" >>

K_message == << "m", "e", "s", "s", "a", "g", "e" >>

K_upstream == << "u", "p", "s", "t", "r", "e", "a", "m" >>

K_model == << "m", "o", "d", "e", "l" >>

K_messages == << "m", "e", "s", "s", "a", "g", "e", "s" >>

K_path == << "p", "a", "t", "h" >>

K_body == << "b", "o", "d", "y" >>

K_max_tokens == << "m", "a", "x", "_", "t", "o", "k", "e", "n", "s" >>

K_temperature == << "t", "e", "m", "p", "e", "r", "a", "t", "u", "r", "e" >>

K_request_id == << "r", "e", "q", "u", "e", "s", "t", "_", "i", "d" >>

K_ticket == << "t", "i", "c", "k", "e", "t" >>

K_commitment_root == << "c", "o", "m", "m", "i", "t", "m", "e", "n", "t", "_", "r", "o", "o", "t" >>

K_nullifier == << "n", "u", "l", "l", "i", "f", "i", "e", "r" >>

K_proof == << "p", "r", "o", "o", "f" >>

Text_ok == << "o", "k" >>

Text_err == << "e", "r", "r" >>

Text_gateway_error == << "g", "a", "t", "e", "w", "a", "y", "_", "e", "r", "r", "o", "r" >>

Text_unknown_error == << "u", "n", "k", "n", "o", "w", "n", " ", "e", "r", "r", "o", "r" >>

ChatCompletionsPath == << "/", "v", "1", "/", "c", "h", "a", "t", "/", "c", "o", "m", "p", "l", "e", "t", "i", "o", "n", "s" >>

isObject(v) == v.t = "obj"

RECURSIVE parseChatRequest(_)
parseChatRequest(input) ==
  IF isObject(input) /\ Get(input, K_model).t = "str" /\ Get(input, K_messages).t = "arr"
  THEN Return(input)
  ELSE IF isObject(input) /\ Get(input, K_path) = JStr(ChatCompletionsPath) /\ isObject(Get(input, K_body))
  THEN parseChatRequest(Get(input, K_body))
  ELSE Throw("ProtocolError")

\* uuid is what crypto.randomUUID() returned
buildInferenceRequest(tokenClass, ticket, req, uuid) ==
  JObj(<< Member(K_request_id, JStr(uuid)),
          Member(K_model, Get(req, K_model)),
          Member(K_messages, Get(req, K_messages)),
          Member(K_max_tokens, Get(req, K_max_tokens)),
          Member(K_temperature, Get(req, K_temperature)),
          Member(K_token_class, JStr(tokenClass)),
          Member(K_ticket, ticket) >>)

parseGatewayPayload(decrypted) ==
  LET Kind(kind) ==
        IF kind # JStr(Text_ok) /\ kind # JStr(Text_err) THEN Undefined
        ELSE IF kind = JStr(Text_ok) /\ isObject(Get(decrypted, K_response))
        THEN JObj(<< Member(K_kind, kind), Member(K_response, Get(decrypted, K_response)) >>)
        ELSE IF kind = JStr(Text_err) /\ isObject(Get(decrypted, K_error))
        THEN JObj(<< Member(K_kind, kind), Member(K_error, Get(decrypted, K_error)) >>)
        ELSE Undefined
  IN  IF ~isObject(decrypted) THEN Undefined ELSE Kind(Get(decrypted, K_kind))

\* faulty variant: only server errors count as a failed status
IsNon2xxServerErrorOnly(status) == status >= 500

\* status < 200 || status >= 300
IsNon2xx(status) == status < 200 \/ status >= 300

\* the GatewayError of the tagged reply {kind: "err", error}
TaggedGatewayError(error) ==
  GatewayError(Coalesce(Get(error, K_code), JStr(Text_gateway_error)),
               Coalesce(Get(error, K_message), JStr(Text_unknown_error)))

\* the GatewayError of the legacy reply {error}
LegacyGatewayError(error) ==
  GatewayError(JStr(ToStringJs(Coalesce(Get(error, K_code), JStr(Text_gateway_error)))),
               JStr(ToStringJs(Coalesce(Get(error, K_message), JStr(Text_unknown_error)))))

\* faulty variant: the error sub-object is looked at before the ok tag
interpretReplyErrorFirst(decrypted, status) ==
  LET Payload(payloadOut) ==
        IF isObject(decrypted) /\ isObject(Get(decrypted, K_error))
        THEN LegacyGatewayError(Get(decrypted, K_error))
        ELSE IF OptGet(payloadOut, K_kind) = JStr(Text_ok) THEN Return(Get(payloadOut, K_response))
        ELSE IF OptGet(payloadOut, K_kind) = JStr(Text_err) THEN TaggedGatewayError(Get(payloadOut, K_error))
        ELSE IF IsNon2xx(status) THEN HttpError(status)
        ELSE IF isObject(decrypted) /\ HasKey(decrypted, K_upstream) THEN Return(Get(decrypted, K_upstream))
        ELSE Throw("ProtocolError")
  IN  Payload(parseGatewayPayload(decrypted))

\* faulty variant: the upstream value is returned before the HTTP status
\* is looked at
interpretReplyUpstreamFirst(decrypted, status) ==
  LET Payload(payloadOut) ==
        IF OptGet(payloadOut, K_kind) = JStr(Text_ok) THEN Return(Get(payloadOut, K_response))
        ELSE IF OptGet(payloadOut, K_kind) = JStr(Text_err) THEN TaggedGatewayError(Get(payloadOut, K_error))
        ELSE IF isObject(decrypted) /\ isObject(Get(decrypted, K_error))
        THEN LegacyGatewayError(Get(decrypted, K_error))
        ELSE IF isObject(decrypted) /\ HasKey(decrypted, K_upstream) THEN Return(Get(decrypted, K_upstream))
        ELSE IF IsNon2xx(status) THEN HttpError(status)
        ELSE Throw("ProtocolError")
  IN  Payload(parseGatewayPayload(decrypted))

\* faulty variant: the HTTP status is looked at before the reply's error
interpretReplyStatusFirst(decrypted, status) ==
  LET Payload(payloadOut) ==
        IF OptGet(payloadOut, K_kind) = JStr(Text_ok) THEN Return(Get(payloadOut, K_response))
        ELSE IF IsNon2xx(status) THEN HttpError(status)
        ELSE IF OptGet(payloadOut, K_kind) = JStr(Text_err) THEN TaggedGatewayError(Get(payloadOut, K_error))
        ELSE IF isObject(decrypted) /\ isObject(Get(decrypted, K_error))
        THEN LegacyGatewayError(Get(decrypted, K_error))
        ELSE IF isObject(decrypted) /\ HasKey(decrypted, K_upstream) THEN Return(Get(decrypted, K_upstream))
        ELSE Throw("ProtocolError")
  IN  Payload(parseGatewayPayload(decrypted))

\* what inferJsonWithTicket makes of the decrypted reply and the status
interpretReply(decrypted, status) ==
  LET Payload(payloadOut) ==
        IF OptGet(payloadOut, K_kind) = JStr(Text_ok) THEN Return(Get(payloadOut, K_response))
        ELSE IF OptGet(payloadOut, K_kind) = JStr(Text_err) THEN TaggedGatewayError(Get(payloadOut, K_error))
        ELSE IF isObject(decrypted) /\ isObject(Get(decrypted, K_error))
        THEN LegacyGatewayError(Get(decrypted, K_error))
        ELSE IF IsNon2xx(status) THEN HttpError(status)
        ELSE IF isObject(decrypted) /\ HasKey(decrypted, K_upstream) THEN Return(Get(decrypted, K_upstream))
        ELSE Throw("ProtocolError")
  IN  Payload(parseGatewayPayload(decrypted))

\* await resp.json(): a body is text, parsed as JSON, or the JSON text of
\* an envelope, whose ciphertext field is kept as the bytes it encodes
RespJson(body) == IF body.kind = "text" THEN JsonParse(body.text) ELSE Return(body.json)

\* inferJsonWithTicket from the status line on: how often openJson was
\* called, what it gave, and the outcome of the call
readResponse(status, body, state) ==
  LET Open(decrypted) ==
        [openCalls |-> 1, decrypted |-> decrypted,
         result |-> IF decrypted.threw THEN decrypted ELSE interpretReply(decrypted.value, status)]
      Normalize(respEnv) ==
        IF respEnv.threw THEN [openCalls |-> 0, decrypted |-> None, result |-> Throw("ProtocolError")]
        ELSE Open(openJson(respEnv.value, state))
      Json(respJson) ==
        IF respJson.threw THEN [openCalls |-> 0, decrypted |-> None, result |-> Throw("ProtocolError")]
        ELSE Normalize(normalizeEnvelope(respJson.value))
  IN  Json(RespJson(body))

\* faulty variant: the ticket's class is not compared with the class asked for
prepareRequestNoPreCheck(gatewayPk, tokenClass, ticket, upstream, uuid, ephKey, nonce) ==
  LET Seal(payload, s) ==
        IF s.threw THEN s
        ELSE Return([payload |-> payload, envelope |-> s.value.envelope, state |-> s.value.state])
      Build(payload) == Seal(payload, sealJson(gatewayPk, tokenClass, payload, ephKey, nonce))
      Chat(chatReq) ==
        IF chatReq.threw THEN chatReq
        ELSE Build(buildInferenceRequest(tokenClass, ticket, chatReq.value, uuid))
  IN  Chat(parseChatRequest(upstream))

\* inferJsonWithTicket up to the transport call, with the random draws
\* named: the request id, the ephemeral key pair and the nonce
prepareRequest(gatewayPk, tokenClass, ticket, upstream, uuid, ephKey, nonce) ==
  IF Get(ticket, K_token_class) # JStr(tokenClass) THEN Throw("ProtocolError")
  ELSE LET Seal(payload, s) ==
             IF s.threw THEN s
             ELSE Return([payload |-> payload, envelope |-> s.value.envelope, state |-> s.value.state])
           Build(payload) == Seal(payload, sealJson(gatewayPk, tokenClass, payload, ephKey, nonce))
           Chat(chatReq) ==
             IF chatReq.threw THEN chatReq
             ELSE Build(buildInferenceRequest(tokenClass, ticket, chatReq.value, uuid))
       IN  Chat(parseChatRequest(upstream))

(***************************************************************************)
(* tickets.ts                                                              *)
(***************************************************************************)
ZkTicket(commitment_root, nullifier, token_class, proof) ==
  JObj(<< Member(K_commitment_root, commitment_root), Member(K_nullifier, nullifier),
          Member(K_token_class, token_class), Member(K_proof, proof) >>)

K_commitment_root_b64 ==
  << "c", "o", "m", "m", "i", "t", "m", "e", "n", "t", "_", "r", "o", "o", "t", "_", "b", "6", "4" >>

K_nullifier_b64 == << "n", "u", "l", "l", "i", "f", "i", "e", "r", "_", "b", "6", "4" >>

K_proof_b64 == << "p", "r", "o", "o", "f", "_", "b", "6", "4" >>

\* !!v
Truthy(v) ==
  CASE v.t = "undefined" -> FALSE
    [] v.t = "null" -> FALSE
    [] v.t = "bool" -> v.b
    [] v.t = "num" -> v.n # 0
    [] v.t = "str" -> v.s # << >>
    [] OTHER -> TRUE

b64Zeros(size) == Base64Encode(Repeat(0, size))

\* typeof raw[key] === 'string' ? raw[key] : typeof raw[alias] === 'string' ? raw[alias] : fallback
StringField(raw, key, alias, fallback) ==
  IF Get(raw, key).t = "str" THEN Get(raw, key).s
  ELSE IF Get(raw, alias).t = "str" THEN Get(raw, alias).s
  ELSE fallback

normalizeTicket(raw, fallbackTokenClass) ==
  LET Ticket(commitment_root, nullifier, proof, token_class) ==
        IF token_class.threw THEN token_class
        ELSE Return(ZkTicket(JStr(commitment_root), JStr(nullifier), JStr(token_class.value), JStr(proof)))
      Fields(commitment_root, nullifier, proof) ==
        IF nullifier = << >> THEN Throw("Error")
        ELSE Ticket(commitment_root, nullifier, proof,
                    IF Truthy(Get(raw, K_token_class)) THEN parseTokenClass(ToStringJs(Get(raw, K_token_class)))
                    ELSE Return(fallbackTokenClass))
  IN  Fields(StringField(raw, K_commitment_root, K_commitment_root_b64, b64Zeros(32)),
             StringField(raw, K_nullifier, K_nullifier_b64, << >>),
             StringField(raw, K_proof, K_proof_b64, << >>))

\* A pool entry is kept with the position it had in the ticket file:
\* [id |-> position, raw |-> the entry].

\* faulty variant: an entry with no declared class counts as a match
exactIndexOrUntyped(tickets, tokenClass) ==
  LET Exact(t) == ~Truthy(Get(t.raw, K_token_class))
                  \/ parseTokenClass(ToStringJs(Get(t.raw, K_token_class))) = Return(tokenClass)
      First(hits) == IF hits = {} THEN -1 ELSE (CHOOSE i \in hits : \A j \in hits : i <= j) - 1
  IN  First({i \in 1..Len(tickets) : Exact(tickets[i])})

\* this.tickets.findIndex(...) of line 104: the 0-based index of the first
\* entry whose declared class parses to tokenClass, or -1
exactIndex(tickets, tokenClass) ==
  LET Exact(t) == Truthy(Get(t.raw, K_token_class))
                  /\ parseTokenClass(ToStringJs(Get(t.raw, K_token_class))) = Return(tokenClass)
      First(hits) == IF hits = {} THEN -1 ELSE (CHOOSE i \in hits : \A j \in hits : i <= j) - 1
  IN  First({i \in 1..Len(tickets) : Exact(tickets[i])})

\* faulty variant: an entry whose class does not parse counts as untyped
fallbackIndexOrUnrecognized(tickets) ==
  LET Loose(t) == ~Truthy(Get(t.raw, K_token_class))
                  \/ parseTokenClass(ToStringJs(Get(t.raw, K_token_class))).threw
      First(hits) == IF hits = {} THEN -1 ELSE (CHOOSE i \in hits : \A j \in hits : i <= j) - 1
  IN  First({i \in 1..Len(tickets) : Loose(tickets[i])})

\* this.tickets.findIndex((t) => !t.token_class)
fallbackIndex(tickets) ==
  LET First(hits) == IF hits = {} THEN -1 ELSE (CHOOSE i \in hits : \A j \in hits : i <= j) - 1
  IN  First({i \in 1..Len(tickets) : ~Truthy(Get(tickets[i].raw, K_token_class))})

\* faulty variant: the selected entry stays in the pool
spliceKeepsEntry(tickets, idx) == tickets

\* faulty variant: the head of the pool is removed, whatever was selected
spliceHead(tickets, idx) == SubSeq(tickets, 2, Len(tickets))

\* this.tickets.splice(idx, 1): the pool without the entry at 0-based idx
splice(tickets, idx) == SubSeq(tickets, 1, idx) \o SubSeq(tickets, idx + 2, Len(tickets))

\* faulty variant: the entry is normalized before it is taken out, and an
\* entry that fails stays in the pool
nextTicketKeepsInvalid(tickets, tokenClass) ==
  LET Checked(idx, ticket) ==
        IF ticket.threw \/ Get(ticket.value, K_token_class) # JStr(tokenClass)
        THEN [tickets |-> tickets, taken |-> tickets[idx + 1], result |-> TicketExhausted("invalid")]
        ELSE [tickets |-> splice(tickets, idx), taken |-> tickets[idx + 1], result |-> ticket]
      Selected(idx) ==
        IF idx < 0 THEN [tickets |-> tickets, taken |-> None, result |-> TicketExhausted("exhausted")]
        ELSE Checked(idx, normalizeTicket(tickets[idx + 1].raw, tokenClass))
      Indexes(exact, fallback) == Selected(IF exact >= 0 THEN exact ELSE fallback)
  IN  Indexes(exactIndex(tickets, tokenClass), fallbackIndex(tickets))

\* FileTicketSource.nextTicket(tokenClass) on the pool tickets: the pool
\* it leaves, the entry it took out and what it returns or throws
nextTicket(tickets, tokenClass) ==
  LET Checked(ticket) ==
        IF ticket.threw THEN TicketExhausted("invalid")
        ELSE IF Get(ticket.value, K_token_class) # JStr(tokenClass) THEN TicketExhausted("invalid")
        ELSE ticket
      Selected(idx) ==
        IF idx < 0 THEN [tickets |-> tickets, taken |-> None, result |-> TicketExhausted("exhausted")]
        ELSE [tickets |-> splice(tickets, idx), taken |-> tickets[idx + 1],
              result |-> Checked(normalizeTicket(tickets[idx + 1].raw, tokenClass))]
      Indexes(exact, fallback) == Selected(IF exact >= 0 THEN exact ELSE fallback)
  IN  Indexes(exactIndex(tickets, tokenClass), fallbackIndex(tickets))

(***************************************************************************)
(* Bounds and input sets                                                   *)
(***************************************************************************)
\* nonces are drawn from seeds 0..MaxNonce
MaxNonce == 1

\* envelope versions 0..MaxVersion are tried besides 257
MaxVersion == 2

RandomBytes(n, seed) == AsSeq([i \in 1..n |-> (seed * 101 + i * 7) % 256])

Nonces == {RandomBytes(12, seed) : seed \in 0..MaxNonce}

Text_hello == << "h", "e", "l", "l", "o" >>

Text_world == << "w", "o", "r", "l", "d" >>

\* {hello: "world", n: 123}
HelloPayload == JObj(<< Member(Text_hello, JStr(Text_world)), Member(<< "n" >>, JNum(123)) >>)

\* {upstream: {ok: true}}
UpstreamPayload == JObj(<< Member(K_upstream, JObj(<< Member(Text_ok, JBool(TRUE)) >>)) >>)

\* a string whose JSON text is exactly n bytes long
TextPayload(n) == JStr(Repeat("a", n - 2))

SmallPayloads ==
  { HelloPayload, UpstreamPayload, JNull, JNum(-7),
    JArr(<< JStr(<< "q", "\"", "\\", "\n" >>), JBool(FALSE), JObj(<< >>) >>) }

\* payloads handed to sealJson: small ones, the largest that fits and the
\* smallest that does not
SealPayloads(tc) ==
  {HelloPayload, TextPayload(requestPaddedLen(tc) - HEADER_LEN), TextPayload(requestPaddedLen(tc) - HEADER_LEN + 1)}

\* payloads a gateway can frame into a reply of class tc
ResponsePayloads(tc) == SmallPayloads \cup {TextPayload(responsePaddedLen(tc) - HEADER_LEN)}

OtherClass(tc) ==
  CASE tc = C256 -> C512
    [] tc = C512 -> C1024
    [] tc = C1024 -> C2048
    [] tc = C2048 -> C4096
    [] tc = C4096 -> C256

ToUpperCase(s) ==
  AsSeq([i \in 1..Len(s) |->
     LET Upper(code) == IF code >= 97 /\ code <= 122 THEN Chr(code - 32) ELSE s[i]
     IN  Upper(Ord[s[i]])])

(***************************************************************************)
(* Inputs of the client calls                                              *)
(***************************************************************************)
\* crypto.generateKeyPairSync('x25519'): faulty variant, one key pair for
\* every call
generateKeyPairSyncReused(counter) == 1

\* crypto.generateKeyPairSync('x25519'): the counter-th key pair, never
\* handed out before
generateKeyPairSync(counter) == counter

\* crypto.randomUUID(), as text that differs from draw to draw
randomUUID(counter) == << "r", "e", "q", "-" >> \o Digits(counter)

\* faulty variant: every dummy ticket is of class c256
randomDummyTicketFixedClass(tokenClass, seed) ==
  ZkTicket(JStr(Base64Encode(RandomBytes(32, seed))), JStr(Base64Encode(RandomBytes(32, seed + 1))),
           JStr(C256), JStr(Base64Encode(RandomBytes(64, seed + 2))))

randomDummyTicket(tokenClass, seed) ==
  ZkTicket(JStr(Base64Encode(RandomBytes(32, seed))), JStr(Base64Encode(RandomBytes(32, seed + 1))),
           JStr(tokenClass), JStr(Base64Encode(RandomBytes(64, seed + 2))))

Calls == {"A", "B"}

\* HTTP statuses of a reply: the 2xx range's ends, their neighbours, 500
Statuses == {199, 200, 299, 300, 500}

\* the concurrent calls use two classes, two statuses and two plaintexts
ConcurrentClasses == {C1024, C2048}

ConcurrentStatuses == {200, 500}

Text_m1 == << "m", "1" >>

Text_hi == << "h", "i" >>

Text_quota == << "q", "u", "o", "t", "a" >>

Text_boom == << "b", "o", "o", "m" >>

Text_oops == << "o", "o", "p", "s" >>

\* {model: "m1", messages: [{role: "user", content: content}]}
ChatRequest(content) ==
  JObj(<< Member(K_model, JStr(Text_m1)),
          Member(K_messages, JArr(<< JObj(<< Member(<< "r", "o", "l", "e" >>, JStr(<< "u", "s", "e", "r" >>)),
                                             Member(<< "c", "o", "n", "t", "e", "n", "t" >>, JStr(content)) >>) >>)) >>)

\* upstream arguments: a chat request, the same wrapped in {path, body}, a
\* wrapper without body, and a chat request too long for the class
ConcurrentUpstreams(tc) == {ChatRequest(Text_hi)}

Upstreams(tc) ==
  { ChatRequest(Text_hi),
    JObj(<< Member(K_path, JStr(ChatCompletionsPath)), Member(K_body, ChatRequest(Text_hi)) >>),
    JObj(<< Member(K_path, JStr(ChatCompletionsPath)) >>),
    ChatRequest(Repeat("a", requestPaddedLen(tc))) }

\* {output: "hi"}
InferenceResponse == JObj(<< Member(<< "o", "u", "t", "p", "u", "t" >>, JStr(Text_hi)) >>)

\* {code: "quota", message: "boom"}
ErrorResponse == JObj(<< Member(K_code, JStr(Text_quota)), Member(K_message, JStr(Text_boom)) >>)

\* plaintexts a gateway may seal into a reply
ReplyPayloads ==
  { JObj(<< Member(K_kind, JStr(Text_ok)), Member(K_response, InferenceResponse) >>),
    JObj(<< Member(K_kind, JStr(Text_ok)), Member(K_response, InferenceResponse),
            Member(K_error, ErrorResponse), Member(K_upstream, JNum(1)) >>),
    JObj(<< Member(K_kind, JStr(Text_ok)), Member(K_response, JStr(Text_hi)), Member(K_error, JObj(<< >>)) >>),
    JObj(<< Member(K_kind, JStr(Text_err)), Member(K_error, ErrorResponse) >>),
    JObj(<< Member(K_kind, JStr(Text_err)), Member(K_error, JObj(<< >>)), Member(K_upstream, JNum(1)) >>),
    JObj(<< Member(K_kind, JStr(Text_err)), Member(K_error, JStr(Text_boom)), Member(K_upstream, JNum(1)) >>),
    JObj(<< Member(K_error, JObj(<< Member(K_code, JNum(7)) >>)), Member(K_upstream, JNum(1)) >>),
    JObj(<< Member(K_kind, JNum(0)), Member(K_upstream, JNull) >>),
    UpstreamPayload,
    JObj(<< >>),
    JArr(<< InferenceResponse >>),
    JNull,
    JStr(Text_hi),
    JNum(7),
    JBool(TRUE),
    JObj(<< Member(K_error, JStr(Text_boom)), Member(K_upstream, JNum(1)) >>) }

ConcurrentReplyPayloads ==
  {JObj(<< Member(K_kind, JStr(Text_ok)), Member(K_response, InferenceResponse) >>), UpstreamPayload}

\* the reply a gateway builds for a request of class tokenClass with the
\* ephemeral key ephPub: it echoes the request's header and seals the padded
\* bytes raw under the response key it derives from its own private key
GatewayReply(tokenClass, ephPub, raw, nonce) ==
  Envelope(JNum(1), JStr(tokenClass), JStr(Base64Encode(ephPub)), JStr(Base64Encode(nonce)),
           B64OfCipher(GatewaySealRaw(deriveKey(diffieHellman(GatewayKeyId, ephPub), tokenClass, KeyDirectionResponse),
                                      nonce, << 1, tokenClassId(tokenClass), KeyDirectionResponse >>,
                                      raw, responsePaddedLen(tokenClass)).value))

(***************************************************************************)
(* Ticket files                                                            *)
(***************************************************************************)
\* a ticket file holds at most MaxPool entries
MaxPool == 3

\* at most MaxPulls nextTicket calls are made on one source
MaxPulls == 3

Text_c2048 == << "c", "2", "0", "4", "8" >>

Text_bogus == << "b", "o", "g", "u", "s" >>

\* entries of a ticket file:
\*   {nullifier: "AA==", token_class: "c2048", proof: ""}
\*   {nullifier_b64: "AQ==", token_class: " C1024", proof_b64: "AQID"}
\*   {nullifier: "Ag=="}
\*   {token_class: "c2048"}
\*   {nullifier: "Aw==", token_class: "bogus"}
\*   {nullifier_b64: "BA==", token_class: ""}
RawTickets ==
  { JObj(<< Member(K_nullifier, JStr(<< "A", "A", "=", "=" >>)), Member(K_token_class, JStr(Text_c2048)),
            Member(K_proof, JStr(<< >>)) >>),
    JObj(<< Member(K_nullifier_b64, JStr(<< "A", "Q", "=", "=" >>)),
            Member(K_token_class, JStr(<< " ", "C", "1", "0", "2", "4" >>)),
            Member(K_proof_b64, JStr(<< "A", "Q", "I", "D" >>)) >>),
    JObj(<< Member(K_nullifier, JStr(<< "A", "g", "=", "=" >>)) >>),
    JObj(<< Member(K_token_class, JStr(Text_c2048)) >>),
    JObj(<< Member(K_nullifier, JStr(<< "A", "w", "=", "=" >>)), Member(K_token_class, JStr(Text_bogus)) >>),
    JObj(<< Member(K_nullifier_b64, JStr(<< "B", "A", "=", "=" >>)), Member(K_token_class, JStr(<< >>)) >>) }

\* the pool FileTicketSource.fromPath builds from the entries of a file
Pool(raws) == AsSeq([i \in 1..Len(raws) |-> [id |-> i, raw |-> raws[i]]])

TicketFiles == UNION {[1..n -> RawTickets] : n \in 0..MaxPool}

\* classes asked of a ticket source
TicketClasses == {C1024, C2048}

DummyTicketSource == [kind |-> "dummy"]

FileTicketSource(file) == [kind |-> "file", file |-> file]

IdleCall ==
  [pc |-> "idle", tokenClass |-> None, ticket |-> None, upstream |-> None, payload |-> None,
   state |-> None, timer |-> "none", aborted |-> FALSE, transportCalls |-> 0, reply |-> None,
   openCalls |-> 0, decrypted |-> None, result |-> None,
   ticketCalls |-> 0, taken |-> None, openedWith |-> None, trace |-> << >>,
   elapsed |-> FALSE]

(***************************************************************************)
(* State                                                                   *)
(***************************************************************************)
VARIABLES
  pc,        \* "idle", "sealed", "sealFailed" or "opened"
  nextKey,   \* number of the next key pair generateKeyPairSync hands out
  sealArgs,  \* arguments of the sealJson call
  sealed,    \* what sealJson returned or threw
  opened,    \* the openJson call: its input, what the peer framed, its result
  calls,     \* the inferJsonWithTicket calls of one GatewayClient
  source,    \* the client's ticket source: its kind and, for a file, what was loaded
  tickets,   \* the pool of the FileTicketSource (this.tickets)
  issued,    \* the nextTicket calls made on the source so far, in order
  applied    \* a function of the library applied to arguments: both and what it gave

vars == << pc, nextKey, sealArgs, sealed, opened, calls, source, tickets, issued, applied >>

GatewayPk == [raw |-> PublicKeyBytes(GatewayKeyId)]

Init ==
  /\ pc = "idle"
  /\ nextKey = 1
  /\ sealArgs = None
  /\ sealed = None
  /\ opened = None
  /\ calls = [c \in Calls |-> IdleCall]
  /\ source = DummyTicketSource
  /\ tickets = << >>
  /\ issued = << >>
  /\ applied = None

\* sealJson(gatewayPk, tokenClass, payload)
SealJson ==
  /\ pc = "idle"
  /\ \E tc \in TokenClass : \E payload \in SealPayloads(tc) : \E nonce \in Nonces :
       LET Returns(r) ==
             /\ sealArgs' = [tokenClass |-> tc, payload |-> payload]
             /\ sealed' = r
             /\ pc' = IF r.threw THEN "sealFailed" ELSE "sealed"
       IN  Returns(sealJson(GatewayPk, tc, payload, nextKey, nonce))
  /\ nextKey' = nextKey + 1
  /\ UNCHANGED << opened, calls, source, tickets, issued, applied >>

State == sealed.value.state

\* openJson(envelope, state) on the envelope sealJson just returned
OpenOwnEnvelope ==
  /\ pc = "sealed"
  /\ opened' = [input |-> sealed.value.envelope, framed |-> sealArgs.payload,
                result |-> openJson(sealed.value.envelope, State)]
  /\ pc' = "opened"
  /\ UNCHANGED << nextKey, sealArgs, sealed, calls, source, tickets, issued, applied >>

Versions == {JNum(n) : n \in 0..MaxVersion} \cup {JNum(257)}

ClassSpellings(tc) == {tc, ToUpperCase(tc), << " " >> \o SubSeq(tc, 2, Len(tc)), OtherClass(tc)}

EphTexts(state) ==
  { Base64Encode(state.ephPubkey),
    << " " >> \o Base64Encode(state.ephPubkey) \o << "\n" >>,
    Base64Encode(PublicKeyBytes(nextKey)),
    Base64Encode(SubSeq(state.ephPubkey, 1, 31)) }

NonceTexts == {Base64Encode(RandomBytes(12, 0)), Base64Encode(RandomBytes(8, 0))}

\* an envelope in either accepted spelling of the version and the key field
SpelledEnvelope(alias, v, tc, eph, nonce, ct) ==
  JObj(<< Member(IF alias THEN K_version ELSE K_v, v), Member(K_token_class, JStr(tc)),
          Member(IF alias THEN K_kem_pub_b64 ELSE K_eph_pubkey_b64, JStr(eph)),
          Member(K_nonce_b64, JStr(nonce)), Member(K_ciphertext_b64, ct) >>)

\* openJson(envelope, state) on a reply whose header fields are arbitrary;
\* its ciphertext is either what a gateway holding K_resp seals for the
\* header it declares (its version, its class, the response direction) or
\* no ciphertext at all
OpenAnyHeader ==
  /\ pc = "sealed"
  /\ \E alias \in BOOLEAN, v \in Versions, tc \in ClassSpellings(State.tokenClass),
        eph \in EphTexts(State), nt \in NonceTexts :
       LET Matching(declared) ==
             GatewaySeal(State.respKey, RandomBytes(12, 0),
                         << v.n % 256, tokenClassId(declared), KeyDirectionResponse >>,
                         UpstreamPayload, responsePaddedLen(declared)).value
           Opens(ct, input) ==
             opened' = [input |-> input,
                        framed |-> IF IsCipherText(ct) THEN UpstreamPayload ELSE Undefined,
                        result |-> openJson(input, State)]
       IN  \E ct \in {B64OfCipher(Matching(parseTokenClass(tc).value)), JStr(Base64Encode(RandomBytes(40, 1)))} :
             Opens(ct, SpelledEnvelope(alias, v, tc, eph, nt, ct))
  /\ pc' = "opened"
  /\ UNCHANGED << nextKey, sealArgs, sealed, calls, source, tickets, issued, applied >>

AadBytes == {<< v, id, dir >> : v \in 0..MaxVersion, id \in 1..5, dir \in {KeyDirectionRequest, KeyDirectionResponse}}

\* keys a peer may have used: this request's two keys, and the response
\* keys of the same exchange at another class and of another exchange
PeerKeys(state) ==
  { state.respKey, state.reqKey,
    deriveKey(diffieHellman(GatewayKeyId, state.ephPubkey), OtherClass(state.tokenClass), KeyDirectionResponse),
    deriveKey(diffieHellman(GatewayKeyId, PublicKeyBytes(nextKey)), state.tokenClass, KeyDirectionResponse) }

\* openJson(envelope, state) on a reply with the expected header whose
\* ciphertext was sealed under any key, any AAD and the envelope's nonce
\* or another one, or is too short to hold a tag
OpenAnyCiphertext ==
  /\ pc = "sealed"
  /\ LET Ciphertexts(padded, nonce) ==
           {B64OfCipher(chacha20poly1305Encrypt(key, sealedNonce, padded, aad).value) :
              key \in PeerKeys(State), aad \in AadBytes, sealedNonce \in {nonce, RandomBytes(12, MaxNonce + 1)}}
           \cup {JStr(Base64Encode(RandomBytes(9, 1)))}
         Opens(ct, input) ==
           opened' = [input |-> input,
                      framed |-> IF IsCipherText(ct) THEN UpstreamPayload ELSE Undefined,
                      result |-> openJson(input, State)]
         Sealed(padded, nonce) ==
           \E ct \in Ciphertexts(padded, nonce) :
             Opens(ct, Envelope(JNum(1), JStr(State.tokenClass), JStr(Base64Encode(State.ephPubkey)),
                                JStr(Base64Encode(nonce)), ct))
     IN  Sealed(padPayload(Utf8Encode(JsonStringify(UpstreamPayload)), responsePaddedLen(State.tokenClass)).value,
                RandomBytes(12, 0))
  /\ pc' = "opened"
  /\ UNCHANGED << nextKey, sealArgs, sealed, calls, source, tickets, issued, applied >>

\* openJson(envelope, state) on the gateway's reply, for every payload
\* that fits and both padded lengths
OpenGatewayReply ==
  /\ pc = "sealed"
  /\ \E nonce \in Nonces, payload \in ResponsePayloads(State.tokenClass) :
       LET Opens(input) == opened' = [input |-> input, framed |-> payload, result |-> openJson(input, State)]
           Echo(enc) ==
             Opens(Envelope(Get(sealed.value.envelope, K_v), Get(sealed.value.envelope, K_token_class),
                            Get(sealed.value.envelope, K_eph_pubkey_b64), enc.nonceB64, enc.ciphertextB64))
       IN  Echo(encryptResponse(State.respKey, State.tokenClass, payload, nonce))
  /\ pc' = "opened"
  /\ UNCHANGED << nextKey, sealArgs, sealed, calls, source, tickets, issued, applied >>

\* DummyTicketSource.nextTicket(tokenClass); seed names the random draws
dummyNextTicket(tokenClass, seed) ==
  [tickets |-> << >>, taken |-> None, result |-> Return(randomDummyTicket(tokenClass, seed))]

\* this.tickets.nextTicket(tokenClass) on the client's ticket source
sourceNextTicket(tokenClass, seed) ==
  IF source.kind = "dummy" THEN dummyNextTicket(tokenClass, seed) ELSE nextTicket(tickets, tokenClass)

Next == SealJson \/ OpenOwnEnvelope \/ OpenAnyHeader \/ OpenAnyCiphertext \/ OpenGatewayReply

Spec == Init /\ [][Next]_vars

(***************************************************************************)
(* GatewayClient.inferJsonWithTicket, every await a step of its own:       *)
(* one call on rich inputs (specification SpecClient) and the calls of one *)
(* client run concurrently (specification SpecConcurrent)                  *)
(***************************************************************************)
\* the calls whose request reached the transport
Sent == {a \in Calls : calls[a].transportCalls > 0}

\* what the transport may hand to call c: the gateway's reply to c's own
\* request, the gateway's reply to the request of another call, or a body
\* that is no envelope
Replies(c, payloads) ==
  LET replyTo(a, framed, raw) ==
        [builtFor |-> a, framed |-> framed,
         body |-> [kind |-> "json",
                   json |-> GatewayReply(calls[a].state.tokenClass, calls[a].state.ephPubkey,
                                         raw, RandomBytes(12, 0))]]
  IN  {replyTo(r.to, r.framed, r.raw) :
         r \in {[to |-> c, framed |-> p, raw |-> Utf8Encode(JsonStringify(p))] : p \in payloads}
               \cup {[to |-> c, framed |-> Undefined, raw |-> Utf8Encode(Text_oops)]}
               \cup {[to |-> a, framed |-> UpstreamPayload, raw |-> Utf8Encode(JsonStringify(UpstreamPayload))] :
                       a \in Sent \ {c}}}
      \cup {[builtFor |-> "nobody", framed |-> Undefined, body |-> [kind |-> "text", text |-> t]] :
              t \in {Text_oops, << "{", "}" >>, << "[", "1", "]" >>}}

\* inferJsonWithTicket(tokenClass, ticket, upstream) up to its first await:
\* the checks, the seal, the timer and the transport call
InferJsonWithTicket(c, classes, upstreams) ==
  /\ calls[c].pc = "idle"
  /\ \E tc \in classes : \E ticketClass \in {tc, OtherClass(tc)}, upstream \in upstreams[tc], nonce \in Nonces :
       LET Prepared(ticket, r) ==
             calls' = [calls EXCEPT ![c] =
                         IF r.threw
                         THEN [@ EXCEPT !.pc = "done", !.tokenClass = tc, !.ticket = ticket,
                                        !.upstream = upstream, !.result = r]
                         ELSE [@ EXCEPT !.pc = "fetching", !.tokenClass = tc, !.ticket = ticket,
                                        !.upstream = upstream, !.payload = r.value.payload,
                                        !.state = r.value.state, !.timer = "armed",
                                        !.transportCalls = 1, !.trace = @ \o << "seal", "send" >>]]
           Ticket(ticket) ==
             Prepared(ticket, prepareRequest(GatewayPk, tc, ticket, upstream, randomUUID(nextKey),
                                             generateKeyPairSync(nextKey), nonce))
       IN  Ticket(randomDummyTicket(ticketClass, nextKey))
  /\ nextKey' = nextKey + 1
  /\ UNCHANGED << pc, sealArgs, sealed, opened, source, tickets, issued, applied >>

\* inferJson(tokenClass, upstream) up to its await: the ticket is asked of
\* the source; a source that throws ends the call
InferJson(c, classes, upstreams) ==
  /\ calls[c].pc = "idle"
  /\ \E tc \in classes : \E upstream \in upstreams[tc] :
       LET Pulled(r) ==
             /\ tickets' = r.tickets
             /\ calls' = [calls EXCEPT ![c] =
                            IF r.result.threw
                            THEN [@ EXCEPT !.pc = "done", !.tokenClass = tc, !.upstream = upstream,
                                           !.ticketCalls = 1, !.taken = r.taken, !.result = r.result]
                            ELSE [@ EXCEPT !.pc = "ticketed", !.tokenClass = tc, !.upstream = upstream,
                                           !.ticketCalls = 1, !.taken = r.taken, !.ticket = r.result.value,
                                           !.trace = @ \o << "ticket" >>]]
       IN  Pulled(sourceNextTicket(tc, nextKey))
  /\ nextKey' = nextKey + 1
  /\ UNCHANGED << pc, sealArgs, sealed, opened, source, issued, applied >>

\* inferJson after its await: inferJsonWithTicket(tokenClass, ticket,
\* upstream) with the ticket the source gave, up to its first await
InferJsonResumes(c) ==
  /\ calls[c].pc = "ticketed"
  /\ \E nonce \in {RandomBytes(12, 0)} :
       LET Prepared(r) ==
             calls' = [calls EXCEPT ![c] =
                         IF r.threw
                         THEN [@ EXCEPT !.pc = "done", !.result = r]
                         ELSE [@ EXCEPT !.pc = "fetching", !.payload = r.value.payload,
                                        !.state = r.value.state, !.timer = "armed",
                                        !.transportCalls = 1, !.trace = @ \o << "seal", "send" >>]]
       IN  Prepared(prepareRequest(GatewayPk, calls[c].tokenClass, calls[c].ticket, calls[c].upstream,
                                   randomUUID(nextKey), generateKeyPairSync(nextKey), nonce))
  /\ nextKey' = nextKey + 1
  /\ UNCHANGED << pc, sealArgs, sealed, opened, source, tickets, issued, applied >>

\* timeoutMs have passed since setTimeout and the timer is still set: its
\* callback runs ctrl.abort()
TimerFires(c) ==
  /\ calls[c].timer = "armed"
  /\ calls' = [calls EXCEPT ![c] = [@ EXCEPT !.timer = "fired", !.aborted = TRUE, !.elapsed = TRUE]]
  /\ UNCHANGED << pc, nextKey, sealArgs, sealed, opened, source, tickets, issued, applied >>

\* timeoutMs have passed since setTimeout while resp.json() is awaited:
\* the timer was cleared when fetch resolved, so no callback runs
TimeoutElapses(c) ==
  /\ calls[c].pc = "responded"
  /\ calls[c].timer = "cleared"
  /\ ~calls[c].elapsed
  /\ calls' = [calls EXCEPT ![c] = [@ EXCEPT !.elapsed = TRUE]]
  /\ UNCHANGED << pc, nextKey, sealArgs, sealed, opened, source, tickets, issued, applied >>

\* faulty variant: the timer is left as it is
clearTimeoutSkipped(timer) == timer

\* clearTimeout(to)
clearTimeout(timer) == IF timer = "armed" THEN "cleared" ELSE timer

\* the transport call resolves with a response; the timer is cleared
FetchResolves(c, statuses, payloads) ==
  /\ calls[c].pc = "fetching"
  /\ \E status \in statuses, r \in Replies(c, payloads) :
       calls' = [calls EXCEPT ![c] =
                   [@ EXCEPT !.pc = "responded", !.timer = clearTimeout(@), !.trace = Append(@, "reply"),
                             !.reply = [status |-> status, body |-> r.body, builtFor |-> r.builtFor,
                                        framed |-> r.framed,
                                        inFlight |-> {a \in Calls : calls[a].pc = "fetching"}]]]
  /\ UNCHANGED << pc, nextKey, sealArgs, sealed, opened, source, tickets, issued, applied >>

\* faulty variant: a call whose transport failed hands its ticket back to
\* the pool
FetchRejectsReturnsTicket(c) ==
  /\ calls[c].pc = "fetching"
  /\ \E name \in {"TypeError"} \cup (IF calls[c].aborted THEN {"AbortError"} ELSE {}) :
       calls' = [calls EXCEPT ![c] = [@ EXCEPT !.pc = "done", !.timer = clearTimeout(@), !.result = Throw(name)]]
  /\ tickets' = IF calls[c].taken = None THEN tickets ELSE Append(tickets, calls[c].taken)
  /\ UNCHANGED << pc, nextKey, sealArgs, sealed, opened, source, issued, applied >>

\* faulty variant: the rejection is caught and the seal state is handed to
\* openJson with no reply to open
FetchRejectsThenOpens(c) ==
  /\ calls[c].pc = "fetching"
  /\ \E name \in {"TypeError"} \cup (IF calls[c].aborted THEN {"AbortError"} ELSE {}) :
       calls' = [calls EXCEPT ![c] = [@ EXCEPT !.pc = "done", !.timer = clearTimeout(@), !.openCalls = 1,
                                                !.openedWith = calls[c].state,
                                                !.decrypted = Throw("CryptoError"),
                                                !.result = Throw("CryptoError")]]
  /\ UNCHANGED << pc, nextKey, sealArgs, sealed, opened, source, tickets, issued, applied >>

\* faulty variant: a rejected transport call is made once more
FetchRejectsRetries(c) ==
  /\ calls[c].pc = "fetching"
  /\ \E name \in {"TypeError"} \cup (IF calls[c].aborted THEN {"AbortError"} ELSE {}) :
       calls' = [calls EXCEPT ![c] =
                   IF calls[c].transportCalls < 2
                   THEN [@ EXCEPT !.transportCalls = @ + 1]
                   ELSE [@ EXCEPT !.pc = "done", !.timer = clearTimeout(@), !.result = Throw(name)]]
  /\ UNCHANGED << pc, nextKey, sealArgs, sealed, opened, source, tickets, issued, applied >>

\* the transport call rejects, with a network error or, once the signal
\* is tripped, with the abort error; the timer is cleared
FetchRejects(c) ==
  /\ calls[c].pc = "fetching"
  /\ \E name \in {"TypeError"} \cup (IF calls[c].aborted THEN {"AbortError"} ELSE {}) :
       calls' = [calls EXCEPT ![c] = [@ EXCEPT !.pc = "done", !.timer = clearTimeout(@), !.result = Throw(name)]]
  /\ UNCHANGED << pc, nextKey, sealArgs, sealed, opened, source, tickets, issued, applied >>

\* faulty variant: the seal state is kept in one place for all calls, so
\* that a call finds the state of another call that has sealed
sealStateShared(c) ==
  IF \E a \in Calls \ {c} : calls[a].state # None
  THEN calls[CHOOSE a \in Calls \ {c} : calls[a].state # None].state
  ELSE calls[c].state

\* the const state of line 126, as call c reads it at line 171
sealStateOf(c) == calls[c].state

\* the rest of inferJsonWithTicket: the body is read, normalized, opened
\* and interpreted
ReadResponse(c) ==
  /\ calls[c].pc = "responded"
  /\ LET Read(state, r) ==
           calls' = [calls EXCEPT ![c] =
                       [@ EXCEPT !.pc = "done", !.openCalls = r.openCalls,
                                 !.decrypted = r.decrypted, !.result = r.result,
                                 !.openedWith = IF r.openCalls = 1 THEN state ELSE None,
                                 !.trace = IF r.openCalls = 1 THEN Append(@, "open") ELSE @]]
         Reads(state) == Read(state, readResponse(calls[c].reply.status, calls[c].reply.body, state))
     IN  Reads(sealStateOf(c))
  /\ UNCHANGED << pc, nextKey, sealArgs, sealed, opened, source, tickets, issued, applied >>

\* one call, with every class, upstream, status and reply
\* the upstream arguments of each class
UpstreamsByClass == [tc \in TokenClass |-> Upstreams(tc)]

NextClient ==
  \/ InferJsonWithTicket("A", TokenClass, UpstreamsByClass)
  \/ TimerFires("A")
  \/ TimeoutElapses("A")
  \/ FetchResolves("A", Statuses, ReplyPayloads)
  \/ FetchRejects("A")
  \/ ReadResponse("A")

SpecClient == Init /\ [][NextClient]_vars

\* the calls run concurrently, each on inputs of the smaller sets
ConcurrentUpstreamsByClass == [tc \in ConcurrentClasses |-> ConcurrentUpstreams(tc)]

NextConcurrent ==
  \E c \in Calls :
    \/ InferJsonWithTicket(c, ConcurrentClasses, ConcurrentUpstreamsByClass)
    \/ TimerFires(c)
    \/ FetchResolves(c, ConcurrentStatuses, ConcurrentReplyPayloads)
    \/ FetchRejects(c)
    \/ ReadResponse(c)

SpecConcurrent == Init /\ [][NextConcurrent]_vars

(***************************************************************************)
(* GatewayClient.inferJson: the calls of one client on a ticket source,    *)
(* run concurrently (specification SpecInfer)                              *)
(***************************************************************************)
\* ticket files of the client: an untyped entry before a typed one, a
\* single ticket, and a malformed entry before two good ones
InferFiles ==
  { << JObj(<< Member(K_nullifier, JStr(<< "A", "g", "=", "=" >>)) >>),
       JObj(<< Member(K_nullifier, JStr(<< "A", "A", "=", "=" >>)), Member(K_token_class, JStr(Text_c2048)),
               Member(K_proof, JStr(<< >>)) >>) >>,
    << JObj(<< Member(K_nullifier, JStr(<< "A", "A", "=", "=" >>)), Member(K_token_class, JStr(Text_c2048)),
               Member(K_proof, JStr(<< >>)) >>) >>,
    << JObj(<< Member(K_token_class, JStr(Text_c2048)) >>),
       JObj(<< Member(K_nullifier_b64, JStr(<< "A", "Q", "=", "=" >>)),
               Member(K_token_class, JStr(<< " ", "C", "1", "0", "2", "4" >>)) >>),
       JObj(<< Member(K_nullifier, JStr(<< "A", "A", "=", "=" >>)), Member(K_token_class, JStr(Text_c2048)) >>) >> }

\* upstream arguments: a chat request, a wrapper without body, and a chat
\* request too long for the class
InferUpstreams(tc) ==
  { ChatRequest(Text_hi),
    JObj(<< Member(K_path, JStr(ChatCompletionsPath)) >>),
    ChatRequest(Repeat("a", requestPaddedLen(tc))) }

InferReplyPayloads ==
  { JObj(<< Member(K_kind, JStr(Text_ok)), Member(K_response, InferenceResponse) >>),
    JObj(<< Member(K_kind, JStr(Text_err)), Member(K_error, ErrorResponse) >>) }

InitInfer ==
  /\ pc = "idle"
  /\ nextKey = 1
  /\ sealArgs = None
  /\ sealed = None
  /\ opened = None
  /\ calls = [c \in Calls |-> IdleCall]
  /\ \/ source = DummyTicketSource /\ tickets = << >>
     \/ \E file \in InferFiles : source = FileTicketSource(file) /\ tickets = Pool(file)
  /\ issued = << >>
  /\ applied = None

InferUpstreamsByClass == [tc \in TicketClasses |-> InferUpstreams(tc)]

\* the status of a reply the gateway accepted
InferStatuses == {200}

NextInfer ==
  \E c \in Calls :
    \/ InferJson(c, TicketClasses, InferUpstreamsByClass)
    \/ InferJsonResumes(c)
    \/ TimerFires(c)
    \/ FetchResolves(c, InferStatuses, InferReplyPayloads)
    \/ FetchRejects(c)
    \/ ReadResponse(c)

SpecInfer == InitInfer /\ [][NextInfer]_vars

(***************************************************************************)
(* The public entry points of GatewayClient on chat requests with and      *)
(* without max_tokens (specification SpecChat)                             *)
(***************************************************************************)
K_output == << "o", "u", "t", "p", "u", "t" >>

\* chatCompletions, lines 200-202: req.max_tokens is set when it is
\* undefined or null
chatCompletionsRequest(tokenClass, req) ==
  IF Get(req, K_max_tokens) = Undefined \/ Get(req, K_max_tokens) = JNull
  THEN JObj(PutMember(req.m, K_max_tokens, JNum(maxOutputTokensHint(tokenClass))))
  ELSE req

\* chatCompletions, lines 206-231: what is made of the value inferJson gave
chatCompletionsResponse(respJson) ==
  LET Body(body) == IF ~isObject(body) THEN Throw("ProtocolError") ELSE Return(body)
  IN  IF isObject(respJson) /\ Get(respJson, K_output).t = "str" /\ Get(respJson, K_request_id).t = "str"
      THEN Return(JObj(<< Member(<< "i", "d" >>, Get(respJson, K_request_id)),
                          Member(K_model, Get(respJson, K_model)),
                          Member(<< "c", "h", "o", "i", "c", "e", "s" >>,
                                 JArr(<< JObj(<< Member(<< "i", "n", "d", "e", "x" >>, JNum(0)),
                                                 Member(K_message,
                                                        JObj(<< Member(<< "r", "o", "l", "e" >>,
                                                                       JStr(<< "a", "s", "s", "i", "s", "t", "a", "n", "t" >>)),
                                                                Member(<< "c", "o", "n", "t", "e", "n", "t" >>,
                                                                       Get(respJson, K_output)) >>)),
                                                 Member(<< "f", "i", "n", "i", "s", "h", "_", "r", "e", "a", "s", "o", "n" >>,
                                                        JStr(<< "s", "t", "o", "p" >>)) >>) >>)),
                          Member(<< "b", "i", "l", "l", "e", "d", "_", "t", "o", "k", "e", "n", "_", "c", "l", "a", "s", "s" >>,
                                 Get(respJson, << "b", "i", "l", "l", "e", "d", "_", "t", "o", "k", "e", "n", "_", "c", "l", "a", "s", "s" >>)) >>))
      ELSE Body(IF isObject(respJson) /\ HasKey(respJson, K_body) THEN Get(respJson, K_body) ELSE respJson)

\* chat requests: without max_tokens, with one, and with max_tokens null
ChatRequests ==
  { ChatRequest(Text_hi),
    JObj(ChatRequest(Text_hi).m \o << Member(K_max_tokens, JNum(7)) >>),
    JObj(ChatRequest(Text_hi).m \o << Member(K_max_tokens, JNull) >>) }

\* upstream arguments of inferJson and inferJsonWithTicket: the chat
\* requests, bare and wrapped in {path, body}
ChatUpstreams ==
  ChatRequests \cup {JObj(<< Member(K_path, JStr(ChatCompletionsPath)), Member(K_body, r) >>) : r \in ChatRequests}

\* plaintexts of a reply: a full inference response, one without request
\* id, one that wraps a body that is no object, and an error
ChatReplyPayloads ==
  { JObj(<< Member(K_kind, JStr(Text_ok)),
            Member(K_response, JObj(<< Member(K_request_id, JStr(Text_m1)), Member(K_output, JStr(Text_hi)) >>)) >>),
    JObj(<< Member(K_kind, JStr(Text_ok)), Member(K_response, InferenceResponse) >>),
    JObj(<< Member(K_kind, JStr(Text_ok)), Member(K_response, JObj(<< Member(K_body, JStr(Text_hi)) >>)) >>),
    JObj(<< Member(K_kind, JStr(Text_err)), Member(K_error, ErrorResponse) >>) }

\* one call of one entry point: applied holds the entry point, the class
\* and the caller's request
InitChat ==
  /\ pc = "idle"
  /\ nextKey = 1
  /\ sealArgs = None
  /\ sealed = None
  /\ opened = None
  /\ calls = [c \in Calls |-> IdleCall]
  /\ source = DummyTicketSource
  /\ tickets = << >>
  /\ issued = << >>
  /\ \E tc \in TokenClass :
       \/ \E req \in ChatRequests :
            applied = [fn |-> "chatCompletions", tokenClass |-> tc, req |-> req, result |-> None]
       \/ \E fn \in {"inferJson", "inferJsonWithTicket"}, req \in ChatUpstreams :
            applied = [fn |-> fn, tokenClass |-> tc, req |-> req, result |-> None]

\* chatCompletions(tokenClass, req) up to the await inside inferJson
ChatCompletions(c) ==
  /\ applied.fn = "chatCompletions"
  /\ InferJson(c, {applied.tokenClass},
               [tc \in {applied.tokenClass} |-> {chatCompletionsRequest(tc, applied.req)}])

\* chatCompletions after inferJson settled
ChatCompletionsReturns(c) ==
  /\ applied.fn = "chatCompletions"
  /\ applied.result = None
  /\ calls[c].pc = "done"
  /\ applied' = [applied EXCEPT !.result = IF calls[c].result.threw THEN calls[c].result
                                           ELSE chatCompletionsResponse(calls[c].result.value)]
  /\ UNCHANGED << pc, nextKey, sealArgs, sealed, opened, calls, source, tickets, issued >>

\* inferJson(tokenClass, upstream) called directly
ChatInferJson(c) ==
  /\ applied.fn = "inferJson"
  /\ InferJson(c, {applied.tokenClass}, [tc \in {applied.tokenClass} |-> {applied.req}])

\* inferJsonWithTicket(tokenClass, ticket, upstream) called directly
ChatInferJsonWithTicket(c) ==
  /\ applied.fn = "inferJsonWithTicket"
  /\ InferJsonWithTicket(c, {applied.tokenClass}, [tc \in {applied.tokenClass} |-> {applied.req}])

NextChat ==
  \/ ChatCompletions("A")
  \/ ChatInferJson("A")
  \/ ChatInferJsonWithTicket("A")
  \/ InferJsonResumes("A")
  \/ TimerFires("A")
  \/ FetchResolves("A", InferStatuses, ChatReplyPayloads)
  \/ FetchRejects("A")
  \/ ReadResponse("A")
  \/ ChatCompletionsReturns("A")

SpecChat == InitChat /\ [][NextChat]_vars

(***************************************************************************)
(* redaction.ts: Redactor                                                  *)
(***************************************************************************)
StablePerValue == "stable_per_value"

Ephemeral == "ephemeral"

\* String.prototype.indexOf(w, from - 1) + 1: the first place at or after
\* from where w stands in s, 0 when there is none
IndexOf(s, w, from) ==
  IF \E i \in from..(Len(s) - Len(w) + 1) : StartsWith(s, i, w)
  THEN CHOOSE i \in from..(Len(s) - Len(w) + 1) :
         StartsWith(s, i, w) /\ \A j \in from..(i - 1) : ~StartsWith(s, j, w)
  ELSE 0

\* out.includes(term)
Includes(s, w) == IndexOf(s, w, 1) # 0

\* s.split(w).join(r) from place from on, w not empty
RECURSIVE SplitJoin(_, _, _, _)
SplitJoin(s, w, r, from) ==
  LET Cut(i) ==
        IF i = 0 THEN SubSeq(s, from, Len(s))
        ELSE SubSeq(s, from, i - 1) \o r \o SplitJoin(s, w, r, i + Len(w))
  IN  Cut(IndexOf(s, w, from))

\* the character classes of the patterns
Letters == {c \in Chars \ {"\n"} : (Ord[c] >= 65 /\ Ord[c] <= 90) \/ (Ord[c] >= 97 /\ Ord[c] <= 122)}

DigitChars == {"0", "1", "2", "3", "4", "5", "6", "7", "8", "9"}

\* \w
WordChars == Letters \cup DigitChars \cup {"_"}

\* [A-Z0-9._%+-] under the flag i
EmailLocalChars == Letters \cup DigitChars \cup {".", "_", "%", "+", "-"}

\* [A-Z0-9.-] under the flag i
EmailDomainChars == Letters \cup DigitChars \cup {".", "-"}

\* [0-9() \-]
PhoneChars == DigitChars \cup {"(", ")", " ", "-"}

\* [a-fA-F0-9]
HexChars == DigitChars \cup {"a", "b", "c", "d", "e", "f", "A", "B", "C", "D", "E", "F"}

\* [A-Za-z0-9]
AlnumChars == Letters \cup DigitChars

\* \b before place i of s
WordBoundary(s, i) == (CharAt(s, i - 1) \in WordChars) # (CharAt(s, i) \in WordChars)

\* how many characters of the class stand in s from place i on
RunLen(s, i, class) ==
  (CHOOSE j \in i..(Len(s) + 1) :
     CharAt(s, j) \notin class /\ \A k \in i..(j - 1) : CharAt(s, k) \in class) - i

Text_BEGIN == << "-", "-", "-", "-", "-", "B", "E", "G", "I", "N" >>

Text_END == << "-", "-", "-", "-", "-", "E", "N", "D" >>

Text_PRIVATE_KEY ==
  << "P", "R", "I", "V", "A", "T", "E", " ", "K", "E", "Y", "-", "-", "-", "-", "-" >>

\* the length of the match of
\* /-----BEGIN[\s\S]*?PRIVATE KEY-----[\s\S]*?-----END[\s\S]*?PRIVATE KEY-----/
\* that starts at place i, 0 when there is none
MatchPrivkey(s, i) ==
  LET Last(c) == IF c = 0 THEN 0 ELSE c + Len(Text_PRIVATE_KEY) - i
      End(b) == IF b = 0 THEN 0 ELSE Last(IndexOf(s, Text_PRIVATE_KEY, b + Len(Text_END)))
      First(a) == IF a = 0 THEN 0 ELSE End(IndexOf(s, Text_END, a + Len(Text_PRIVATE_KEY)))
  IN  IF ~StartsWith(s, i, Text_BEGIN) THEN 0
      ELSE First(IndexOf(s, Text_PRIVATE_KEY, i + Len(Text_BEGIN)))

\* /\b(sk-[A-Za-z0-9]{16,})\b/: the run of letters and digits is taken
\* whole, a shorter one ends between two word characters
MatchApikey(s, i) ==
  LET Run(n) == IF n >= 16 /\ CharAt(s, i + 3 + n) \notin WordChars THEN 3 + n ELSE 0
  IN  IF ~WordBoundary(s, i) \/ ~StartsWith(s, i, << "s", "k", "-" >>) THEN 0
      ELSE Run(RunLen(s, i + 3, AlnumChars))

\* /\b0x[a-fA-F0-9]{40}\b/
MatchEth(s, i) ==
  IF /\ WordBoundary(s, i)
     /\ StartsWith(s, i, << "0", "x" >>)
     /\ RunLen(s, i + 2, HexChars) >= 40
     /\ CharAt(s, i + 42) \notin WordChars
  THEN 42 ELSE 0

\* /\b[A-Z0-9._%+-]+@[A-Z0-9.-]+\.[A-Z]{2,}\b/i: the local part runs up to
\* the @; of the dots of the domain run the last one that is followed by
\* two letters or more and a word boundary ends the domain
MatchEmail(s, i) ==
  LET Tld(p) == RunLen(s, p + 1, Letters)
      Ends(p) == s[p] = "." /\ Tld(p) >= 2 /\ CharAt(s, p + 1 + Tld(p)) \notin WordChars
      Domain(d, n) ==
        IF \E p \in (d + 1)..(d + n - 1) : Ends(p)
        THEN (CHOOSE p \in (d + 1)..(d + n - 1) : Ends(p) /\ \A q \in (p + 1)..(d + n - 1) : ~Ends(q))
        ELSE 0
      Dot(p) == IF p = 0 THEN 0 ELSE p + 1 + Tld(p) - i
      Local(n) ==
        IF n = 0 \/ CharAt(s, i + n) # "@" THEN 0
        ELSE Dot(Domain(i + n + 1, RunLen(s, i + n + 1, EmailDomainChars)))
  IN  IF ~WordBoundary(s, i) THEN 0 ELSE Local(RunLen(s, i, EmailLocalChars))

\* /\b\+?[0-9][0-9() \-]{7,}[0-9]\b/: of the digits of the run that have
\* seven characters or more before them and a word boundary behind them
\* the last one ends the match
MatchPhone(s, i) ==
  LET Ends(e) == CharAt(s, e) \in DigitChars /\ CharAt(s, e + 1) \notin WordChars
      Run(d, n) ==
        IF \E e \in (d + 8)..(d + n) : Ends(e)
        THEN (CHOOSE e \in (d + 8)..(d + n) : Ends(e) /\ \A f \in (e + 1)..(d + n) : ~Ends(f)) - i + 1
        ELSE 0
      From(d) == IF CharAt(s, d) \notin DigitChars THEN 0 ELSE Run(d, RunLen(s, d + 1, PhoneChars))
  IN  IF ~WordBoundary(s, i) THEN 0
      ELSE IF CharAt(s, i) = "+" THEN From(i + 1)
      ELSE From(i)

\* this.patterns, in order
Patterns == << "PRIVKEY", "APIKEY", "ETH", "EMAIL", "PHONE" >>

MatchLen(kind, s, i) ==
  CASE kind = "PRIVKEY" -> MatchPrivkey(s, i)
    [] kind = "APIKEY" -> MatchApikey(s, i)
    [] kind = "ETH" -> MatchEth(s, i)
    [] kind = "EMAIL" -> MatchEmail(s, i)
    [] kind = "PHONE" -> MatchPhone(s, i)

\* rx.exec(out) with lastIndex 0: the leftmost match, index 0 for null
RegExpExec(kind, s) ==
  IF \E i \in 1..Len(s) : MatchLen(kind, s, i) > 0
  THEN LET At(i) == [index |-> i, length |-> MatchLen(kind, s, i)]
       IN  At(CHOOSE i \in 1..Len(s) : MatchLen(kind, s, i) > 0 /\ \A j \in 1..(i - 1) : MatchLen(kind, s, j) = 0)
  ELSE [index |-> 0, length |-> 0]

\* the text of a kind label
KindText(kind) ==
  CASE kind = "PRIVKEY" -> << "P", "R", "I", "V", "K", "E", "Y" >>
    [] kind = "APIKEY" -> << "A", "P", "I", "K", "E", "Y" >>
    [] kind = "ETH" -> << "E", "T", "H" >>
    [] kind = "EMAIL" -> << "E", "M", "A", "I", "L" >>
    [] kind = "PHONE" -> << "P", "H", "O", "N", "E" >>
    [] kind = "TERM" -> << "T", "E", "R", "M" >>

\* SHA-256 stands for a function that mixes every byte it is fed; of its
\* digest the first six bytes are used
RECURSIVE MixBytes(_, _, _, _)
MixBytes(bytes, j, lo, hi) ==
  IF lo > hi THEN 0
  ELSE IF lo = hi THEN (bytes[lo] * (((lo * j) % 13) + 1)) % 256
  ELSE (MixBytes(bytes, j, lo, (lo + hi) \div 2) + MixBytes(bytes, j, ((lo + hi) \div 2) + 1, hi)) % 256

sha256First6(bytes) == AsSeq([j \in 1..6 |-> (MixBytes(bytes, j, 1, Len(bytes)) + Len(bytes) * j) % 256])

HexDigits == << "0", "1", "2", "3", "4", "5", "6", "7", "8", "9", "a", "b", "c", "d", "e", "f" >>

\* buf.toString('hex')
ToHex(bytes) ==
  AsSeq([k \in 1..(2 * Len(bytes)) |->
           IF k % 2 = 1 THEN HexDigits[(bytes[(k + 1) \div 2] \div 16) + 1]
           ELSE HexDigits[(bytes[k \div 2] % 16) + 1]])

\* c.writeBigUInt64LE(BigInt(counter)), counter below 65536
UInt64LE(n) == << n % 256, (n \div 256) % 256, 0, 0, 0, 0, 0, 0 >>

placeholder(mode, salt, kind, original, counter) ==
  << "<" >> \o KindText(kind) \o << "_" >>
    \o ToHex(sha256First6(salt \o Utf8Encode(KindText(kind))
                            \o (IF mode = StablePerValue THEN << >> ELSE UInt64LE(counter))
                            \o Utf8Encode(original)))
    \o << ">" >>

\* addCustomTerm(term): the list of terms after the call
addCustomTerm(customTerms, term) ==
  IF Trim(term) # << >> THEN Append(customTerms, Trim(term)) ELSE customTerms

\* redactText, lines 58-65: the terms from the j-th on; st holds out,
\* mapping (its entries in insertion order) and counter
RECURSIVE RedactTerms(_, _, _, _, _)
RedactTerms(mode, salt, customTerms, j, st) ==
  LET Replace(term, ph) ==
        [out |-> SplitJoin(st.out, term, ph, 1), mapping |-> PutMember(st.mapping, ph, term),
         counter |-> st.counter + 1]
  IN  IF j > Len(customTerms) THEN st
      ELSE IF customTerms[j] # << >> /\ Includes(st.out, customTerms[j])
      THEN RedactTerms(mode, salt, customTerms, j + 1,
                       Replace(customTerms[j], placeholder(mode, salt, "TERM", customTerms[j], st.counter)))
      ELSE RedactTerms(mode, salt, customTerms, j + 1, st)

\* redactText, lines 68-83: the patterns from the p-th on; turns counts
\* the passes the while loops may still make, and a call that would make
\* more is reported as one that has not ended
RECURSIVE RedactPatterns(_, _, _, _, _)
RedactPatterns(mode, salt, p, turns, st) ==
  LET Replace(m, s, ph) ==
        [out |-> SubSeq(st.out, 1, m.index - 1) \o ph \o SubSeq(st.out, m.index + Len(s), Len(st.out)),
         mapping |-> PutMember(st.mapping, ph, s),
         counter |-> st.counter + 1]
      Matched(m, s) ==
        RedactPatterns(mode, salt, p, turns - 1,
                       Replace(m, s, placeholder(mode, salt, Patterns[p], s, st.counter)))
      Exec(m) ==
        IF m.index = 0 THEN RedactPatterns(mode, salt, p + 1, turns, st)
        ELSE IF turns = 0 THEN [ended |-> FALSE, redacted |-> st.out, map |-> st.mapping]
        ELSE Matched(m, SubSeq(st.out, m.index, m.index + m.length - 1))
  IN  IF p > Len(Patterns) THEN [ended |-> TRUE, redacted |-> st.out, map |-> st.mapping]
      ELSE Exec(RegExpExec(Patterns[p], st.out))

\* redactText(input) of a Redactor of the given mode, salt and terms; the
\* while loops are followed for as many passes as the text after the
\* terms has characters
redactText(mode, salt, customTerms, input) ==
  LET Patterned(st) == RedactPatterns(mode, salt, 1, Len(st.out), st)
  IN  Patterned(RedactTerms(mode, salt, customTerms, 1, [out |-> input, mapping |-> << >>, counter |-> 0]))

\* faulty variant: the keys are left in insertion order
SortedKeysUnsorted(map) == AsSeq([r \in 1..Len(map) |-> map[r].k])

\* Object.keys(map).sort((a, b) => b.length - a.length): longest first,
\* keys of one length in insertion order
SortedKeys(map) ==
  LET Rank(i) ==
        1 + Cardinality({j \in 1..Len(map) :
                           \/ Len(map[j].k) > Len(map[i].k)
                           \/ (Len(map[j].k) = Len(map[i].k) /\ j < i)})
  IN  AsSeq([r \in 1..Len(map) |-> map[CHOOSE i \in 1..Len(map) : Rank(i) = r].k])

\* rehydrateText, lines 116-118, from the i-th key on
RECURSIVE RehydrateKeys(_, _, _, _)
RehydrateKeys(out, map, keys, i) ==
  IF i > Len(keys) THEN out
  ELSE RehydrateKeys(SplitJoin(out, keys[i], Get(JObj(map), keys[i]), 1), map, keys, i + 1)

rehydrateText(input, map) == RehydrateKeys(input, map, SortedKeys(map), 1)

(***************************************************************************)
(* A Redactor: terms are registered, a text is redacted and rehydrated     *)
(* (specification SpecRedaction)                                           *)
(***************************************************************************)
\* terms registered with one Redactor
MaxTerms == 2

\* the random salt of a Redactor
Salts == {RandomBytes(16, 0), RandomBytes(16, 1)}

Text_secret == << "s", "e", "c", "r", "e", "t" >>

Text_EthAddress ==
  << "0", "x", "5", "2", "9", "0", "8", "4", "0", "0", "0", "9", "8", "5", "2", "7", "8", "8",
         "6", "E", "0", "F", "7", "0", "3", "0", "0", "6", "9", "8", "5", "7", "D", "2", "E", "4",
         "1", "6", "9", "E", "E", "7" >>

Text_PrivateKey ==
  << "-", "-", "-", "-", "-", "B", "E", "G", "I", "N", " ", "R", "S", "A", " ", "P", "R", "I",
         "V", "A", "T", "E", " ", "K", "E", "Y", "-", "-", "-", "-", "-", "\n", "M", "I", "I", "B",
         " ", "s", "e", "c", "r", "e", "t", "\n", "-", "-", "-", "-", "-", "E", "N", "D", " ", "R",
         "S", "A", " ", "P", "R", "I", "V", "A", "T", "E", " ", "K", "E", "Y", "-", "-", "-", "-",
         "-" >>

\* arguments of addCustomTerm: a word, a letter of the placeholders in
\* blanks, a text that ends in an opening bracket, a hexadecimal digit,
\* and blanks
TermArguments ==
  { Text_secret,
    << " ", "T", " " >>,
    << "y", " ", "<" >>,
    << "e" >>,
    << " ", " " >> }

\* input texts: the one of tests/redaction.test.ts, texts with a phone
\* number, an address, a key block, twice the same address, texts the
\* terms occur in, a text that looks like a placeholder, and the empty text
RedactionTexts ==
  { << "C", "o", "n", "t", "a", "c", "t", " ", "a", "l", "i", "c", "e", "@", "e", "x", "a", "m",
         "p", "l", "e", ".", "c", "o", "m", " ", "a", "n", "d", " ", "u", "s", "e", " ", "s", "k",
         "-", "a", "b", "c", "d", "e", "f", "0", "1", "2", "3", "4", "5", "6", "7", "8", "9", " ",
         "f", "o", "r", " ", "a", "u", "t", "h", "." >>,
    << "c", "a", "l", "l", " ", "+", "1", " ", "(", "5", "5", "5", ")", " ", "1", "2", "3", "-",
         "4", "5", "6", "7", " ", "n", "o", "w" >>,
    Text_EthAddress,
    << "a", " " >> \o Text_PrivateKey \o << " ", "z" >>,
    << "a", "@", "b", ".", "c", "o", ",", " ", "a", "@", "b", ".", "c", "o" >>,
    << "m", "y", " ", "s", "e", "c", "r", "e", "t", " ", "T" >>,
    << "y", " ", "s", "e", "c", "r", "e", "t", " ", "<", "b", ">", " ", "e" >>,
    << "<", "T", "E", "R", "M", "_", "0", "0", "0", "0", "0", "0", "0", "0", "0", "0", "0", "0", ">" >>,
    << >> }

InitRedaction ==
  /\ pc = "idle"
  /\ nextKey = 1
  /\ sealArgs = None
  /\ sealed = None
  /\ opened = None
  /\ calls = [c \in Calls |-> IdleCall]
  /\ source = DummyTicketSource
  /\ tickets = << >>
  /\ issued = << >>
  /\ \E mode \in {StablePerValue, Ephemeral}, salt \in Salts, input \in RedactionTexts :
       applied = [fn |-> "redactText", mode |-> mode, salt |-> salt, customTerms |-> << >>,
                  added |-> 0, input |-> input, result |-> None, rehydrated |-> None]

\* redactor.addCustomTerm(term)
AddCustomTerm ==
  /\ applied.result = None
  /\ applied.added < MaxTerms
  /\ \E term \in TermArguments :
       applied' = [applied EXCEPT !.customTerms = addCustomTerm(@, term), !.added = @ + 1]
  /\ UNCHANGED << pc, nextKey, sealArgs, sealed, opened, calls, source, tickets, issued >>

\* redactor.redactText(input)
RedactText ==
  /\ applied.result = None
  /\ applied' = [applied EXCEPT !.result = redactText(applied.mode, applied.salt, applied.customTerms,
                                                      applied.input)]
  /\ UNCHANGED << pc, nextKey, sealArgs, sealed, opened, calls, source, tickets, issued >>

\* redactor.rehydrateText(res.redacted, res.map)
RehydrateText ==
  /\ applied.result # None
  /\ applied.result.ended
  /\ applied.rehydrated = None
  /\ applied' = [applied EXCEPT !.rehydrated = [text |-> rehydrateText(applied.result.redacted,
                                                                       applied.result.map)]]
  /\ UNCHANGED << pc, nextKey, sealArgs, sealed, opened, calls, source, tickets, issued >>

NextRedaction == AddCustomTerm \/ RedactText \/ RehydrateText

SpecRedaction == InitRedaction /\ [][NextRedaction]_vars

(***************************************************************************)
(* A ticket source asked for tickets, one nextTicket call after another    *)
(* (specification SpecTickets)                                             *)
(***************************************************************************)
InitTickets ==
  /\ pc = "idle"
  /\ nextKey = 1
  /\ sealArgs = None
  /\ sealed = None
  /\ opened = None
  /\ calls = [c \in Calls |-> IdleCall]
  /\ \E file \in TicketFiles :
       \/ source = FileTicketSource(file) /\ tickets = Pool(file)
       \/ file = << >> /\ source = DummyTicketSource /\ tickets = << >>
  /\ issued = << >>
  /\ applied = None

\* await source.nextTicket(tokenClass)
NextTicket(tokenClass) ==
  /\ Len(issued) < MaxPulls
  /\ LET Pulled(r) ==
           /\ tickets' = r.tickets
           /\ issued' = Append(issued, [tokenClass |-> tokenClass, before |-> tickets, taken |-> r.taken,
                                        result |-> r.result, after |-> r.tickets])
     IN  Pulled(sourceNextTicket(tokenClass, Len(issued)))
  /\ UNCHANGED << pc, nextKey, sealArgs, sealed, opened, calls, source, applied >>

NextTickets == \E tokenClass \in TicketClasses : NextTicket(tokenClass)

SpecTickets == InitTickets /\ [][NextTickets]_vars

(***************************************************************************)
(* padPayload / unpadPayload applied to payloads, target lengths and       *)
(* buffers (specification SpecPadding)                                     *)
(***************************************************************************)
\* payloads are of at most MaxPadLen bytes, besides those sized by a class
MaxPadLen == 3

\* target lengths 0..MaxTarget are tried besides the classes' padded lengths
MaxTarget == 12

PadBytes == {0, 10, 255}

ShortPayloads == UNION {[1..n -> PadBytes] : n \in 0..MaxPadLen}

\* a payload of n bytes 'a'
LongPayload(n) == AsSeq([i \in 1..n |-> 97])

\* the arguments of padPayload: short payloads with small targets, and for
\* each class's padded lengths the empty payload, the largest payload that
\* fits and the smallest that does not
PadArguments ==
  {[payload |-> p, targetLen |-> t] : p \in ShortPayloads, t \in 0..MaxTarget}
    \cup UNION {{[payload |-> << >>, targetLen |-> t],
                 [payload |-> LongPayload(t - HEADER_LEN), targetLen |-> t],
                 [payload |-> LongPayload(t - HEADER_LEN + 1), targetLen |-> t]} :
                  t \in {requestPaddedLen(tc) : tc \in TokenClass} \cup {responsePaddedLen(tc) : tc \in {C256}}}

\* the first four bytes of a buffer: the tag, and two that are not
FrameTags == {MAGIC, << 90, 75, 76, 70 >>, << 122, 107, 108, 103 >>}

\* bytes 4..7 of a buffer
FrameLengths ==
  {UInt32LE(k) : k \in 0..(MaxPadLen + 1)}
    \cup {<< 0, 1, 0, 0 >>, << 1, 1, 0, 0 >>, << 0, 0, 1, 0 >>, << 0, 0, 0, 1 >>, << 255, 255, 255, 255 >>}

\* the buffers handed to unpadPayload: a tag, a length and some bytes,
\* followed by no, few or many filler bytes; and the buffers cut short
Frames ==
  {Buf(tag \o len \o body, fill) :
     tag \in FrameTags, len \in FrameLengths,
     body \in {p \in ShortPayloads : Len(p) <= 2}, fill \in {0, 1, 2, 300}}
    \cup {Buf(SubSeq(MAGIC \o UInt32LE(0), 1, k), 0) : k \in 0..7}

InitPadding ==
  /\ pc = "idle"
  /\ nextKey = 1
  /\ sealArgs = None
  /\ sealed = None
  /\ opened = None
  /\ calls = [c \in Calls |-> IdleCall]
  /\ source = DummyTicketSource
  /\ tickets = << >>
  /\ issued = << >>
  /\ \/ \E a \in PadArguments :
          applied = [fn |-> "padPayload", payload |-> a.payload, targetLen |-> a.targetLen, padded |-> None,
                     frame |-> None, unpadded |-> None]
     \/ \E f \in Frames :
          applied = [fn |-> "unpadPayload", payload |-> None, targetLen |-> None, padded |-> None,
                     frame |-> f, unpadded |-> None]

\* padPayload(payload, targetLen)
PadPayload ==
  /\ applied.fn = "padPayload"
  /\ applied.padded = None
  /\ applied' = [applied EXCEPT !.padded = padPayload(applied.payload, applied.targetLen)]
  /\ UNCHANGED << pc, nextKey, sealArgs, sealed, opened, calls, source, tickets, issued >>

\* unpadPayload(padded) on what padPayload returned
UnpadPadded ==
  /\ applied.padded # None
  /\ ~applied.padded.threw
  /\ applied.unpadded = None
  /\ applied' = [applied EXCEPT !.frame = applied.padded.value, !.unpadded = unpadPayload(applied.padded.value)]
  /\ UNCHANGED << pc, nextKey, sealArgs, sealed, opened, calls, source, tickets, issued >>

\* unpadPayload(padded) on a buffer of any origin
UnpadFrame ==
  /\ applied.fn = "unpadPayload"
  /\ applied.unpadded = None
  /\ applied' = [applied EXCEPT !.unpadded = unpadPayload(applied.frame)]
  /\ UNCHANGED << pc, nextKey, sealArgs, sealed, opened, calls, source, tickets, issued >>

NextPadding == PadPayload \/ UnpadPadded \/ UnpadFrame

SpecPadding == InitPadding /\ [][NextPadding]_vars

(***************************************************************************)
(* normalizeEnvelope applied to envelopes of peers and of sealJson         *)
(* (specification SpecEnvelope)                                            *)
(***************************************************************************)
Text_QUJD == << "Q", "U", "J", "D" >>

Text_QUJF == << "Q", "U", "J", "F" >>

\* how an input spells a field that has an alias: under the name, under the
\* alias, under both, under the alias with the name null, with a value of
\* the wrong type, or not at all
Spellings(key, alias, value, other, wrong) ==
  { << Member(key, value) >>,
    << Member(alias, value) >>,
    << Member(alias, other), Member(key, value) >>,
    << Member(key, JNull), Member(alias, value) >>,
    << Member(key, wrong) >>,
    << Member(alias, wrong) >>,
    << >> }

\* the inputs of normalizeEnvelope: objects of a peer in every spelling,
\* with class texts that parse and that do not, and values that are no
\* object
PeerEnvelopes ==
  { JObj(vm \o tm \o em \o nm \o cm) :
      vm \in Spellings(K_v, K_version, JNum(1), JNum(2), JStr(<< "1" >>)),
      tm \in {<< Member(K_token_class, JStr(t)) >> :
                t \in {Text_c2048, << " ", "C", "1", "0", "2", "4", " " >>, << "2", "5", "6" >>, Text_bogus}}
              \cup {<< >>},
      em \in Spellings(K_eph_pubkey_b64, K_kem_pub_b64, JStr(Text_QUJD), JStr(Text_QUJF), JNum(7)),
      nm \in {<< Member(K_nonce_b64, JStr(Text_QUJF)) >>, << Member(K_nonce_b64, JNum(7)) >>, << >>},
      cm \in {<< Member(K_ciphertext_b64, JStr(Text_QUJD)) >>, << >>} }
    \cup {JNull, Undefined, JStr(Text_QUJD), JArr(<< >>)}

\* the envelopes sealJson emits
SealedEnvelopes ==
  { sealJson(GatewayPk, tc, HelloPayload, generateKeyPairSync(1), nonce).value.envelope :
      tc \in TokenClass, nonce \in Nonces }

InitEnvelope ==
  /\ pc = "idle"
  /\ nextKey = 1
  /\ sealArgs = None
  /\ sealed = None
  /\ opened = None
  /\ calls = [c \in Calls |-> IdleCall]
  /\ source = DummyTicketSource
  /\ tickets = << >>
  /\ issued = << >>
  /\ \/ \E input \in PeerEnvelopes :
          applied = [fn |-> "normalizeEnvelope", origin |-> "peer", input |-> input,
                     normalized |-> None, again |-> None]
     \/ \E input \in SealedEnvelopes :
          applied = [fn |-> "normalizeEnvelope", origin |-> "sealJson", input |-> input,
                     normalized |-> None, again |-> None]

\* normalizeEnvelope(input)
NormalizeEnvelope ==
  /\ applied.normalized = None
  /\ applied' = [applied EXCEPT !.normalized = normalizeEnvelope(applied.input)]
  /\ UNCHANGED << pc, nextKey, sealArgs, sealed, opened, calls, source, tickets, issued >>

\* normalizeEnvelope on the envelope normalizeEnvelope returned
NormalizeAgain ==
  /\ applied.normalized # None
  /\ ~applied.normalized.threw
  /\ applied.again = None
  /\ applied' = [applied EXCEPT !.again = normalizeEnvelope(applied.normalized.value)]
  /\ UNCHANGED << pc, nextKey, sealArgs, sealed, opened, calls, source, tickets, issued >>

NextEnvelope == NormalizeEnvelope \/ NormalizeAgain

SpecEnvelope == InitEnvelope /\ [][NextEnvelope]_vars

(***************************************************************************)
(* parseChatRequest applied to upstream arguments, one invocation a step   *)
(* (specification SpecCoercion)                                            *)
(***************************************************************************)
\* wrappers are nested at most MaxNest deep
MaxNest == 2

Text_other == << "/", "v", "1", "/", "o", "t", "h", "e", "r" >>

\* values without a body: chat requests, objects that lack a string model
\* or an array of messages, and values that are no object
PlainUpstreams ==
  { ChatRequest(Text_hi),
    JObj(<< Member(K_model, JStr(Text_m1)), Member(K_messages, JArr(<< >>)), Member(K_max_tokens, JNum(7)) >>),
    JObj(<< Member(K_model, JNum(7)), Member(K_messages, JArr(<< >>)) >>),
    JObj(<< Member(K_model, JStr(Text_m1)), Member(K_messages, JStr(Text_hi)) >>),
    JObj(<< Member(K_model, JStr(Text_m1)) >>),
    JObj(<< Member(K_messages, JArr(<< >>)) >>),
    JObj(<< >>), JArr(<< ChatRequest(Text_hi) >>), JNull, Undefined, JStr(Text_m1), JNum(7), JBool(TRUE) }

\* {path, body} objects around the given bodies, with the path of chat
\* completions, another path, a path that is no string and no path; and
\* such objects that are chat requests themselves
Wrappers(bodies) ==
  { JObj(pm \o << Member(K_body, body) >>) :
      pm \in {<< Member(K_path, JStr(ChatCompletionsPath)) >>, << Member(K_path, JStr(Text_other)) >>,
              << Member(K_path, JNum(7)) >>, << >>},
      body \in bodies }
    \cup {JObj(<< Member(K_path, JStr(ChatCompletionsPath)) >>)}
    \cup {JObj(<< Member(K_model, JStr(Text_m1)), Member(K_messages, JArr(<< >>)),
                  Member(K_path, JStr(ChatCompletionsPath)), Member(K_body, body) >>) :
             body \in bodies \cap {JNull, ChatRequest(Text_hi)}}

RECURSIVE UpstreamShapes(_)
UpstreamShapes(n) ==
  IF n = 0 THEN PlainUpstreams ELSE UpstreamShapes(n - 1) \cup Wrappers(UpstreamShapes(n - 1))

InitCoercion ==
  /\ pc = "idle"
  /\ nextKey = 1
  /\ sealArgs = None
  /\ sealed = None
  /\ opened = None
  /\ calls = [c \in Calls |-> IdleCall]
  /\ source = DummyTicketSource
  /\ tickets = << >>
  /\ issued = << >>
  /\ \E input \in UpstreamShapes(MaxNest) :
       applied = [fn |-> "parseChatRequest", upstream |-> input, input |-> input, invocations |-> 0,
                  result |-> None]

\* faulty variant: the body of a wrapper is returned as it is
ParseChatRequestNoRecursion ==
  /\ applied.result = None
  /\ applied' =
       IF isObject(applied.input) /\ Get(applied.input, K_model).t = "str"
          /\ Get(applied.input, K_messages).t = "arr"
       THEN [applied EXCEPT !.invocations = @ + 1, !.result = Return(applied.input)]
       ELSE IF isObject(applied.input) /\ Get(applied.input, K_path) = JStr(ChatCompletionsPath)
               /\ isObject(Get(applied.input, K_body))
       THEN [applied EXCEPT !.invocations = @ + 1, !.result = Return(Get(applied.input, K_body))]
       ELSE [applied EXCEPT !.invocations = @ + 1, !.result = Throw("ProtocolError")]
  /\ UNCHANGED << pc, nextKey, sealArgs, sealed, opened, calls, source, tickets, issued >>

\* one invocation of parseChatRequest(input): it returns, calls itself on
\* input.body, or throws
ParseChatRequest ==
  /\ applied.result = None
  /\ applied' =
       IF isObject(applied.input) /\ Get(applied.input, K_model).t = "str"
          /\ Get(applied.input, K_messages).t = "arr"
       THEN [applied EXCEPT !.invocations = @ + 1, !.result = Return(applied.input)]
       ELSE IF isObject(applied.input) /\ Get(applied.input, K_path) = JStr(ChatCompletionsPath)
               /\ isObject(Get(applied.input, K_body))
       THEN [applied EXCEPT !.invocations = @ + 1, !.input = Get(applied.input, K_body)]
       ELSE [applied EXCEPT !.invocations = @ + 1, !.result = Throw("ProtocolError")]
  /\ UNCHANGED << pc, nextKey, sealArgs, sealed, opened, calls, source, tickets, issued >>

NextCoercion == ParseChatRequest

SpecCoercion == InitCoercion /\ [][NextCoercion]_vars

(***************************************************************************)
(* parseTokenClass applied to texts, and the table functions applied to    *)
(* the class it returns (specification SpecTokenClass)                     *)
(***************************************************************************)
\* texts without space at either end: the names, the names in upper case,
\* the numeric suffixes, and texts that are none of these
ClassCores ==
  TokenClass
    \cup {ToUpperCase(tc) : tc \in TokenClass}
    \cup {SubSeq(tc, 2, Len(tc)) : tc \in TokenClass}
    \cup { << "c", "8", "1", "9", "2" >>, << "8", "1", "9", "2" >>, << "c" >>, << >>,
           << "c", " ", "2", "5", "6" >>, << "c", "c", "2", "5", "6" >>, << "c", "2", "5", "6", "x" >>,
           << "d", "2", "5", "6" >>, << "0", "2", "5", "6" >>, << "2", "5", "6", "c" >>,
           << "c", "-", "2", "5", "6" >>, << "c", "2", "5" >>, << "C", "2", "0", "4", "9" >> }

ClassMargins == {<< >>, << " " >>, << "\n", " " >>}

InitTokenClass ==
  /\ pc = "idle"
  /\ nextKey = 1
  /\ sealArgs = None
  /\ sealed = None
  /\ opened = None
  /\ calls = [c \in Calls |-> IdleCall]
  /\ source = DummyTicketSource
  /\ tickets = << >>
  /\ issued = << >>
  /\ \E left \in ClassMargins, core \in ClassCores, right \in ClassMargins :
       applied = [fn |-> "parseTokenClass", core |-> core, value |-> left \o core \o right,
                  result |-> None, table |-> None]

\* parseTokenClass(value)
ParseTokenClass ==
  /\ applied.result = None
  /\ applied' = [applied EXCEPT !.result = parseTokenClass(applied.value)]
  /\ UNCHANGED << pc, nextKey, sealArgs, sealed, opened, calls, source, tickets, issued >>

\* the five table functions on the class parseTokenClass returned
ClassTable ==
  /\ applied.result # None
  /\ ~applied.result.threw
  /\ applied.table = None
  /\ applied' = [applied EXCEPT !.table =
                   [tokenClassId |-> tokenClassId(applied.result.value),
                    maxPromptBytes |-> maxPromptBytes(applied.result.value),
                    requestPaddedLen |-> requestPaddedLen(applied.result.value),
                    responsePaddedLen |-> responsePaddedLen(applied.result.value),
                    maxOutputTokensHint |-> maxOutputTokensHint(applied.result.value)]]
  /\ UNCHANGED << pc, nextKey, sealArgs, sealed, opened, calls, source, tickets, issued >>

NextTokenClass == ParseTokenClass \/ ClassTable

SpecTokenClass == InitTokenClass /\ [][NextTokenClass]_vars

(***************************************************************************)
(* Properties of sealJson / openJson (specification Spec)                  *)
(***************************************************************************)
\* the fields of the envelope handed to openJson, read as openJson reads them
InVersion == Coalesce(OptGet(opened.input, K_v), OptGet(opened.input, K_version))

InClass == parseTokenClass(ToStringJs(OptGet(opened.input, K_token_class)))

InEph ==
  Base64Decode(Trim(ToStringJs(Coalesce(OptGet(opened.input, K_eph_pubkey_b64), OptGet(opened.input, K_kem_pub_b64)))))

InNonce == Base64Decode(Trim(ToStringJs(OptGet(opened.input, K_nonce_b64))))

InCipher == OptGet(opened.input, K_ciphertext_b64)

ExpectedAad == << 1, tokenClassId(State.tokenClass), 2 >>

\* the envelope carries v = 1, the state's class, the state's ephemeral key
\* and a 12-byte nonce
ExpectedHeader ==
  /\ InVersion = JNum(1)
  /\ InClass = Return(State.tokenClass)
  /\ InEph = State.ephPubkey
  /\ Len(InNonce) = 12

\* the envelope is the reply of the response-shaped roundtrip for the
\* payload opened.framed
ResponseShaped ==
  /\ pc = "opened"
  /\ ExpectedHeader
  /\ opened.framed.t # "undefined"
  /\ Len(JsonStringify(opened.framed)) <= responsePaddedLen(State.tokenClass) - HEADER_LEN
  /\ InCipher = B64OfCipher(GatewaySeal(State.respKey, InNonce, ExpectedAad, opened.framed,
                                        responsePaddedLen(State.tokenClass)).value)

\* C1: a reply with v = 1, the state's class, the state's ephemeral key, a
\* 12-byte nonce and the padded payload encrypted under K_resp with AAD
\* (1, id(class), 2) opens to exactly that payload
ResponseRoundtrip == ResponseShaped => opened.result = Return(opened.framed)

ResponseRoundtripWitness ==
  /\ ResponseShaped
  /\ State.tokenClass = C1024
  /\ opened.framed = UpstreamPayload
  /\ opened.result = Return(UpstreamPayload)

SelfOpened == pc = "opened" /\ opened.input = sealed.value.envelope

\* C2: opening the envelope sealJson returned, with the seal state it
\* returned, gives back the sealed payload
SelfOpenRoundtrip == SelfOpened => opened.result = Return(sealArgs.payload)

\* C3: a reply whose ephemeral field decodes to other bytes than the
\* state's ephemeral public key fails with CryptoError
EchoedEphemeralBinding ==
  (pc = "opened" /\ InEph # State.ephPubkey) => opened.result = Throw("CryptoError")

\* the reply of the response-shaped roundtrip with only the ephemeral field
\* overwritten by another valid 32-byte key
EchoedEphemeralBindingWitness ==
  /\ pc = "opened"
  /\ InVersion = JNum(1)
  /\ InClass = Return(State.tokenClass)
  /\ Len(InNonce) = 12
  /\ InEph = PublicKeyBytes(nextKey)
  /\ InCipher = B64OfCipher(GatewaySeal(State.respKey, InNonce, ExpectedAad, UpstreamPayload,
                                        responsePaddedLen(State.tokenClass)).value)
  /\ opened.result = Throw("CryptoError")

\* C5: a reply that declares another token_class than the seal state's
\* fails with CryptoError, whatever its other fields and ciphertext
ClassBinding ==
  (pc = "opened" /\ InClass # Return(State.tokenClass)) => opened.result = Throw("CryptoError")

\* a reply at another class, sealed by the gateway for that class
ClassBindingWitness ==
  /\ pc = "opened"
  /\ InVersion = JNum(1)
  /\ InClass = Return(OtherClass(State.tokenClass))
  /\ InEph = State.ephPubkey
  /\ Len(InNonce) = 12
  /\ IsCipherText(InCipher)
  /\ InCipher.b64of.aead = << State.respKey, InNonce, << 1, tokenClassId(OtherClass(State.tokenClass)), 2 >> >>
  /\ opened.result = Throw("CryptoError")

\* C6: a reply whose version is not 1 fails with CryptoError, whatever its
\* other fields
VersionBinding ==
  (pc = "opened" /\ InVersion # JNum(1)) => opened.result = Throw("CryptoError")

\* version 257 has the low byte 1: the gateway's AAD for it is (1, id, 2)
VersionBindingWitness ==
  /\ pc = "opened"
  /\ InVersion = JNum(257)
  /\ InClass = Return(State.tokenClass)
  /\ InEph = State.ephPubkey
  /\ Len(InNonce) = 12
  /\ IsCipherText(InCipher)
  /\ InCipher.b64of.aead = << State.respKey, InNonce, ExpectedAad >>
  /\ opened.result = Throw("CryptoError")

\* the ciphertext was sealed under K_resp and the envelope's nonce with
\* another AAD than (1, id(class), 2)
OtherAad ==
  /\ pc = "opened"
  /\ ExpectedHeader
  /\ IsCipherText(InCipher)
  /\ InCipher.b64of.aead[1] = State.respKey
  /\ InCipher.b64of.aead[2] = InNonce
  /\ InCipher.b64of.aead[3] # ExpectedAad

\* C7: a ciphertext sealed under K_resp with any AAD other than
\* (1, id(class), 2) is rejected with CryptoError
AadBinding == OtherAad => opened.result = Throw("CryptoError")

\* the AAD carries the request direction byte
AadBindingWitness ==
  /\ OtherAad
  /\ InCipher.b64of.aead[3] = << 1, tokenClassId(State.tokenClass), 1 >>
  /\ opened.result = Throw("CryptoError")

SealedEnvelope == sealed.value.envelope

\* C8: sealJson returns for every payload within the limit, and what it
\* returns has v = 1, the requested class, a 32-byte ephemeral key, a
\* 12-byte nonce and requestPaddedLen(class) + 16 bytes of ciphertext; the
\* seal state has the same class and key
SealOutputShape ==
  /\ pc = "sealFailed" =>
       Len(JsonStringify(sealArgs.payload)) > requestPaddedLen(sealArgs.tokenClass) - HEADER_LEN
  /\ pc \in {"sealed", "opened"} =>
       /\ Get(SealedEnvelope, K_v) = JNum(1)
       /\ Get(SealedEnvelope, K_token_class) = JStr(sealArgs.tokenClass)
       /\ Len(Base64Decode(Get(SealedEnvelope, K_eph_pubkey_b64).s)) = 32
       /\ Len(Base64Decode(Get(SealedEnvelope, K_nonce_b64).s)) = 12
       /\ DecodeCipher(Get(SealedEnvelope, K_ciphertext_b64)).len = requestPaddedLen(sealArgs.tokenClass) + 16
       /\ State.tokenClass = sealArgs.tokenClass
       /\ State.ephPubkey = Base64Decode(Get(SealedEnvelope, K_eph_pubkey_b64).s)

\* the two payload sizes of one class give the same ciphertext length
SealOutputShapeWitness ==
  /\ pc = "sealed"
  /\ sealArgs.tokenClass = C1024
  /\ sealArgs.payload = TextPayload(requestPaddedLen(C1024) - HEADER_LEN)
  /\ DecodeCipher(Get(SealedEnvelope, K_ciphertext_b64)).len = requestPaddedLen(C1024) + 16

(***************************************************************************)
(* Properties of inferJsonWithTicket (specifications SpecClient and        *)
(* SpecConcurrent)                                                         *)
(***************************************************************************)
\* call c read a response and finished
Answered(c) == calls[c].pc = "done" /\ calls[c].reply # None

\* call c finished with a reply that openJson opened
Opened(c) == Answered(c) /\ calls[c].openCalls = 1 /\ ~calls[c].decrypted.threw

\* the reply of call c came while another call was in flight and is the
\* gateway's reply to that call's request
Replayed(c) ==
  /\ Answered(c)
  /\ calls[c].reply.builtFor \in Calls \ {c}
  /\ calls[c].reply.builtFor \in calls[c].reply.inFlight

\* C4: with two calls in flight, the gateway's reply to one call delivered
\* to the other is rejected with CryptoError, and a call that returns a
\* value returns it from a reply sealed for that very call
CrossSessionReplayRejected ==
  \A c \in Calls :
    /\ Replayed(c) => calls[c].result = Throw("CryptoError")
    /\ (calls[c].pc = "done" /\ ~calls[c].result.threw) => (Answered(c) /\ calls[c].reply.builtFor = c)

\* both calls are of the same class, so that only the keys tell their
\* replies apart
CrossSessionReplayRejectedWitness ==
  /\ Replayed("B")
  /\ calls["B"].reply.builtFor = "A"
  /\ calls["A"].state.tokenClass = calls["B"].state.tokenClass
  /\ calls["A"].state.respKey # calls["B"].state.respKey
  /\ calls["B"].result = Throw("CryptoError")

\* the decrypted reply is {kind: "err", error: {...}} or an object with an
\* error sub-object that is not a reply tagged ok with its response
StructuredError(d) ==
  /\ isObject(d)
  /\ isObject(Get(d, K_error))
  /\ ~(Get(d, K_kind) = JStr(Text_ok) /\ isObject(Get(d, K_response)))

\* C9: whenever the decrypted reply carries a structured error, tagged or
\* legacy, the call raises GatewayError, for every HTTP status
GatewayErrorPriority ==
  \A c \in Calls :
    (Opened(c) /\ StructuredError(calls[c].decrypted.value)) =>
      (calls[c].result.threw /\ calls[c].result.name = "GatewayError")

\* a tagged error under status 500
GatewayErrorPriorityWitness ==
  /\ Opened("A")
  /\ calls["A"].reply.status = 500
  /\ calls["A"].decrypted.value = JObj(<< Member(K_kind, JStr(Text_err)), Member(K_error, ErrorResponse) >>)
  /\ calls["A"].result = GatewayError(JStr(Text_quota), JStr(Text_boom))

\* the reply of call c has a status outside 200..299
FailedStatus(c) == Answered(c) /\ calls[c].reply.status \notin 200..299

\* C10 as stated: every reply with a non-2xx status that carries no
\* structured error makes the call raise HttpError with that status
HttpErrorWithoutStructuredError ==
  \A c \in Calls :
    (FailedStatus(c) /\ ~(Opened(c) /\ StructuredError(calls[c].decrypted.value))) =>
      calls[c].result = HttpError(calls[c].reply.status)

\* the decrypted reply is tagged ok and has its response
TaggedOk(d) == isObject(d) /\ Get(d, K_kind) = JStr(Text_ok) /\ isObject(Get(d, K_response))

\* C10: a reply with a non-2xx status that openJson opened into a value
\* that is neither tagged ok with its response nor carries an error
\* sub-object makes the call raise HttpError with that status
HttpErrorForOpenedReply ==
  \A c \in Calls :
    (FailedStatus(c) /\ Opened(c) /\ ~TaggedOk(calls[c].decrypted.value)
       /\ ~(isObject(calls[c].decrypted.value) /\ isObject(Get(calls[c].decrypted.value, K_error)))) =>
      calls[c].result = HttpError(calls[c].reply.status)

\* the legacy upstream reply under a status just outside the 2xx range
HttpErrorForOpenedReplyWitness ==
  /\ FailedStatus("A")
  /\ Opened("A")
  /\ calls["A"].reply.status = 300
  /\ calls["A"].decrypted.value = UpstreamPayload
  /\ calls["A"].result = HttpError(300)

\* the reply of call c is the gateway's reply to c's own request and the
\* bytes sealed in it are no JSON text
NotJson(c) ==
  /\ Answered(c)
  /\ calls[c].openCalls = 1
  /\ calls[c].reply.builtFor = c
  /\ calls[c].reply.framed = Undefined

\* C11 as stated: whenever the decrypted reply is no JSON text, or is JSON
\* that is not an object, the call fails with ProtocolError, for every
\* HTTP status
NonObjectReplyIsProtocolError ==
  \A c \in Calls :
    (NotJson(c) \/ (Opened(c) /\ ~isObject(calls[c].decrypted.value))) =>
      calls[c].result = Throw("ProtocolError")

\* C12: a decrypted object tagged ok with an object response makes the
\* call return that response, for every HTTP status and whatever other
\* fields the object has
TaggedOkReturnsResponse ==
  \A c \in Calls :
    (Opened(c) /\ TaggedOk(calls[c].decrypted.value)) =>
      calls[c].result = Return(Get(calls[c].decrypted.value, K_response))

\* a tagged ok reply that also has error and upstream, under status 500
TaggedOkReturnsResponseWitness ==
  /\ Opened("A")
  /\ calls["A"].reply.status = 500
  /\ TaggedOk(calls["A"].decrypted.value)
  /\ isObject(Get(calls["A"].decrypted.value, K_error))
  /\ HasKey(calls["A"].decrypted.value, K_upstream)
  /\ calls["A"].result = Return(InferenceResponse)

\* the decrypted reply is an object with no recognized kind tag and no
\* error sub-object
LegacyShaped(d) ==
  /\ isObject(d)
  /\ Get(d, K_kind) \notin {JStr(Text_ok), JStr(Text_err)}
  /\ ~isObject(Get(d, K_error))

\* C13: a decrypted object with no recognized kind tag and no error
\* sub-object returns its upstream value only under a 2xx status; under a
\* 2xx status and without an upstream key the call fails with ProtocolError
LegacyUpstreamFallback ==
  \A c \in Calls :
    (Opened(c) /\ LegacyShaped(calls[c].decrypted.value)) =>
      IF calls[c].reply.status \in 200..299
      THEN IF HasKey(calls[c].decrypted.value, K_upstream)
           THEN calls[c].result = Return(Get(calls[c].decrypted.value, K_upstream))
           ELSE calls[c].result = Throw("ProtocolError")
      ELSE calls[c].result.threw

\* the legacy upstream reply under the last 2xx status
LegacyUpstreamFallbackWitness ==
  /\ Opened("A")
  /\ calls["A"].reply.status = 299
  /\ calls["A"].decrypted.value = UpstreamPayload
  /\ calls["A"].result = Return(JObj(<< Member(Text_ok, JBool(TRUE)) >>))

(***************************************************************************)
(* Properties of the ticket sources (specification SpecTickets)            *)
(***************************************************************************)
\* the i-th nextTicket call returned a ticket
Returned(i) == ~issued[i].result.threw

\* the i-th nextTicket call was made on a FileTicketSource
OnFile(i) == source.kind = "file"

\* C14: each nextTicket call on a FileTicketSource that returns a ticket
\* decreases remaining() by exactly 1, and an entry that was returned is
\* not returned by any later call
TicketSingleUse ==
  \A i \in 1..Len(issued) :
    (OnFile(i) /\ Returned(i)) =>
      /\ Len(issued[i].after) = Len(issued[i].before) - 1
      /\ \A j \in (i + 1)..Len(issued) : Returned(j) => issued[j].taken.id # issued[i].taken.id

\* two entries of the same content are returned one after the other and
\* the pool has lost both
TicketSingleUseWitness ==
  /\ source.kind = "file"
  /\ Len(issued) = 2
  /\ Returned(1) /\ Returned(2)
  /\ issued[1].taken.raw = issued[2].taken.raw
  /\ Len(tickets) = Len(source.file) - 2

\* the class an entry declares normalizes to c: trimmed and lower-cased it
\* is the name of c or the digits of that name
Declares(e, c) ==
  /\ Get(e.raw, K_token_class).t = "str"
  /\ ToLowerCase(Trim(Get(e.raw, K_token_class).s)) \in {c, SubSeq(c, 2, Len(c))}

\* the entry declares no class
Untyped(e) == Get(e.raw, K_token_class) \in {Undefined, JStr(<< >>)}

\* position of the first entry of the pool p that declares c, 0 if none
FirstDeclaring(p, c) ==
  IF \E k \in 1..Len(p) : Declares(p[k], c)
  THEN CHOOSE k \in 1..Len(p) : Declares(p[k], c) /\ \A j \in 1..(k - 1) : ~Declares(p[j], c)
  ELSE 0

\* position of the first untyped entry of the pool p, 0 if none
FirstUntyped(p) ==
  IF \E k \in 1..Len(p) : Untyped(p[k])
  THEN CHOOSE k \in 1..Len(p) : Untyped(p[k]) /\ \A j \in 1..(k - 1) : ~Untyped(p[j])
  ELSE 0

\* the entry nextTicket(c) is to select from the pool p: the first that
\* declares c, else the first untyped one; 0 if there is neither
Preferred(p, c) == IF FirstDeclaring(p, c) > 0 THEN FirstDeclaring(p, c) ELSE FirstUntyped(p)

\* the nullifier of an entry: its nullifier text, else its nullifier_b64
EntryNullifier(e) ==
  IF Get(e.raw, K_nullifier).t = "str" THEN Get(e.raw, K_nullifier).s
  ELSE IF Get(e.raw, K_nullifier_b64).t = "str" THEN Get(e.raw, K_nullifier_b64).s
  ELSE << >>

\* the call returned the entry e as a ticket of class c
ReturnsEntry(call, e, c) ==
  /\ ~call.result.threw
  /\ call.taken = e
  /\ Get(call.result.value, K_token_class) = JStr(c)
  /\ Get(call.result.value, K_nullifier) = JStr(EntryNullifier(e))

\* C16 as stated: nextTicket(c) returns the first entry whose declared
\* class normalizes to c, else the first entry with no declared class
\* stamped with c, and throws TicketExhausted when there is neither
TicketClassSelectionReturns ==
  \A i \in 1..Len(issued) :
    OnFile(i) =>
      IF Preferred(issued[i].before, issued[i].tokenClass) > 0
      THEN ReturnsEntry(issued[i], issued[i].before[Preferred(issued[i].before, issued[i].tokenClass)],
                        issued[i].tokenClass)
      ELSE issued[i].result.threw /\ issued[i].result.name = "TicketExhausted"

\* C16: nextTicket(c) selects the first entry whose declared class
\* normalizes to c, else the first entry with no declared class; it
\* returns the selected entry as a ticket of class c when the entry has a
\* nullifier and throws TicketExhausted for it when it has none; when
\* there is neither kind of entry it throws TicketExhausted
TicketClassSelection ==
  \A i \in 1..Len(issued) :
    OnFile(i) =>
      IF Preferred(issued[i].before, issued[i].tokenClass) > 0
      THEN IF EntryNullifier(issued[i].before[Preferred(issued[i].before, issued[i].tokenClass)]) # << >>
           THEN ReturnsEntry(issued[i], issued[i].before[Preferred(issued[i].before, issued[i].tokenClass)],
                             issued[i].tokenClass)
           ELSE /\ issued[i].result = TicketExhausted("invalid")
                /\ issued[i].taken = issued[i].before[Preferred(issued[i].before, issued[i].tokenClass)]
      ELSE issued[i].result = TicketExhausted("exhausted") /\ issued[i].taken = None

\* an untyped entry heads the pool and the entry that declares the class
\* asked for, further down, is the one returned
TicketClassSelectionWitness ==
  /\ source.kind = "file"
  /\ Len(issued) = 1
  /\ Len(issued[1].before) = 3
  /\ Untyped(issued[1].before[1])
  /\ Returned(1)
  /\ issued[1].taken.id = 3
  /\ Declares(issued[1].taken, issued[1].tokenClass)

\* C17: every ticket a source returns for class c has token_class = c,
\* and inferJsonWithTicket called with c and that ticket, as inferJson
\* calls it, passes the ticket pre-check
TicketClassMatchesRequest ==
  \A i \in 1..Len(issued) :
    Returned(i) =>
      /\ Get(issued[i].result.value, K_token_class) = JStr(issued[i].tokenClass)
      /\ ~prepareRequest(GatewayPk, issued[i].tokenClass, issued[i].result.value, ChatRequest(Text_hi),
                         randomUUID(i), generateKeyPairSync(i), RandomBytes(12, 0)).threw

\* an entry with no declared class is returned stamped with the class
\* asked for, after a dummy-free pool gave a typed one
TicketClassMatchesRequestWitness ==
  /\ source.kind = "file"
  /\ Len(issued) = 2
  /\ Returned(1) /\ Declares(issued[1].taken, issued[1].tokenClass)
  /\ Returned(2) /\ Untyped(issued[2].taken)
  /\ Get(issued[2].result.value, K_token_class) = JStr(issued[2].tokenClass)


(***************************************************************************)
(* Properties of a call before its transport call                          *)
(***************************************************************************)
Started(c) == calls[c].pc # "idle" /\ calls[c].ticket # None

FailedWith(c, name) ==
  calls[c].result # None /\ calls[c].result.threw /\ calls[c].result.name = name

\* C18: inferJsonWithTicket given a ticket whose token_class is not the
\* requested class raises ProtocolError, and in this case, for an upstream
\* payload of unsupported shape and for PayloadTooLarge from sealing, the
\* call has ended with the error and the transport was never invoked
ValidationPrecedesNetwork ==
  \A c \in Calls :
    Started(c) =>
      /\ Get(calls[c].ticket, K_token_class) # JStr(calls[c].tokenClass) =>
            calls[c].pc = "done" /\ calls[c].result = Throw("ProtocolError") /\ calls[c].transportCalls = 0
      /\ parseChatRequest(calls[c].upstream).threw =>
            calls[c].pc = "done" /\ calls[c].result = Throw("ProtocolError") /\ calls[c].transportCalls = 0
      /\ FailedWith(c, "PayloadTooLarge") =>
            calls[c].pc = "done" /\ calls[c].transportCalls = 0 /\ calls[c].trace = << >>
      /\ calls[c].transportCalls = 0 => calls[c].pc = "done" /\ calls[c].result.threw

\* a ticket of another class given with a well-formed chat request
ValidationPrecedesNetworkWitness ==
  /\ calls["A"].pc = "done"
  /\ calls["A"].ticket # None
  /\ Get(calls["A"].ticket, K_token_class) # JStr(calls["A"].tokenClass)
  /\ ~parseChatRequest(calls["A"].upstream).threw
  /\ calls["A"].result = Throw("ProtocolError")
  /\ calls["A"].transportCalls = 0

(***************************************************************************)
(* Properties of the calls of inferJson on one ticket source               *)
(***************************************************************************)
\* the calls whose nextTicket selected a pool entry, and those among them
\* to which it returned the entry as a ticket
Selecting == {c \in Calls : calls[c].taken # None}

Ticketed == {c \in Selecting : calls[c].ticket # None}

InPool(e) == \E i \in 1..Len(tickets) : tickets[i].id = e.id

\* C15: with the calls of nextTicket on one FileTicketSource interleaved in
\* any order, no two calls return the same pool entry, each call that
\* selects an entry removes exactly that one entry, and the tickets returned
\* plus the entries remaining never exceed the initial pool size
TicketPoolAtomicity ==
  source.kind = "file" =>
    /\ \A a \in Selecting, b \in Selecting : a # b => calls[a].taken.id # calls[b].taken.id
    /\ \A c \in Selecting : calls[c].taken.raw = source.file[calls[c].taken.id]
    /\ Len(tickets) + Cardinality(Selecting) = Len(source.file)
    /\ Cardinality(Ticketed) + Len(tickets) <= Len(source.file)
    /\ \A i \in 1..Len(tickets), j \in 1..Len(tickets) : i < j => tickets[i].id < tickets[j].id

\* two calls for the same class both got a ticket, from different entries
TicketPoolAtomicityWitness ==
  /\ source.kind = "file"
  /\ Ticketed = Calls
  /\ calls["A"].tokenClass = calls["B"].tokenClass
  /\ calls["A"].taken.id # calls["B"].taken.id
  /\ Len(tickets) = Len(source.file) - 2

\* C19: inferJson takes the ticket from the source before the payload is
\* validated, and whatever the call's outcome (validation, sealing,
\* transport, decryption or gateway error) the entry it took is not in the
\* pool again
PulledTicketIsSpent ==
  \A c \in Calls :
    /\ calls[c].pc # "idle" => calls[c].ticketCalls = 1
    /\ (calls[c].pc = "done" /\ calls[c].ticket # None /\ parseChatRequest(calls[c].upstream).threw) =>
          calls[c].trace = << "ticket" >> /\ calls[c].result = Throw("ProtocolError")
    /\ c \in Selecting => ~InPool(calls[c].taken)

\* one call failed in validation and the other in the transport, each
\* after taking an entry that is not in the pool
PulledTicketIsSpentWitness ==
  /\ Ticketed = Calls
  /\ calls["A"].pc = "done" /\ parseChatRequest(calls["A"].upstream).threw
  /\ calls["A"].result = Throw("ProtocolError")
  /\ calls["B"].pc = "done" /\ calls["B"].result = Throw("TypeError")
  /\ ~InPool(calls["A"].taken) /\ ~InPool(calls["B"].taken)

CallOrder == << "ticket", "seal", "send", "reply", "open" >>

\* C20: within one call the ticket is obtained before sealing, sealing
\* completes before the send starts, openJson is invoked only after the
\* transport delivered a reply, at most once, and only with the seal state
\* that the call's own sealJson produced
OrderingWithinCall ==
  \A c \in Calls :
    /\ Len(calls[c].trace) <= Len(CallOrder)
    /\ calls[c].trace = SubSeq(CallOrder, 1, Len(calls[c].trace))
    /\ calls[c].openCalls <= 1
    /\ calls[c].openCalls = 1 <=> (calls[c].trace = CallOrder)
    /\ calls[c].openCalls = 1 =>
          /\ calls[c].reply # None
          /\ calls[c].openedWith = calls[c].state
          /\ \A a \in Calls \ {c} : calls[a].state # None => calls[c].openedWith # calls[a].state

\* a call opened its reply while the other call held a seal state too
OrderingWithinCallWitness ==
  /\ calls["A"].openCalls = 1
  /\ calls["A"].trace = CallOrder
  /\ ~calls["A"].decrypted.threw
  /\ calls["B"].state # None
  /\ calls["B"].pc = "fetching"

(***************************************************************************)
(* Properties of the timeout and of failed transport calls                 *)
(***************************************************************************)
\* the transport has not yet delivered the whole response: fetch is pending,
\* or it resolved and the body is being received by resp.json()
Outstanding(c) == calls[c].pc \in {"fetching", "responded"}

\* C21: when the timeout elapses while the transport's send or receive,
\* the reception of the response body included, is still outstanding, the
\* cancellation signal is tripped; and a call that ended after the timeout
\* elapsed on its pending fetch did not end with HttpError
TimeoutCancelsOutstandingTransport ==
  \A c \in Calls :
    /\ (calls[c].elapsed /\ Outstanding(c)) => calls[c].aborted
    /\ (calls[c].pc = "done" /\ calls[c].aborted /\ calls[c].reply = None) =>
          calls[c].result \in {Throw("AbortError"), Throw("TypeError")}

\* the transport call of c was made and rejected
TransportFailed(c) ==
  calls[c].pc = "done" /\ calls[c].transportCalls > 0 /\ calls[c].reply = None

\* C22: when the transport call of a request is cancelled or fails, the
\* request's seal state is never passed to openJson and the call returns no
\* decrypted value: it ends with the transport's error
FailedTransportNeverOpens ==
  \A c \in Calls :
    TransportFailed(c) =>
      /\ calls[c].state # None
      /\ calls[c].openCalls = 0
      /\ calls[c].openedWith = None
      /\ calls[c].decrypted = None
      /\ calls[c].result \in {Throw("TypeError"), Throw("AbortError")}
      /\ calls[c].result = Throw("AbortError") => calls[c].aborted

\* the timeout tripped the signal and the transport call was cancelled
FailedTransportNeverOpensWitness ==
  /\ TransportFailed("A")
  /\ calls["A"].aborted
  /\ calls["A"].result = Throw("AbortError")
  /\ calls["A"].state # None
  /\ calls["A"].openCalls = 0

\* C23: one inferJson call invokes the ticket source exactly once and the
\* transport at most once on every path, and it returns a value only when
\* every step succeeded: no error is caught and replaced by a result
NoAutomaticRetries ==
  \A c \in Calls :
    calls[c].pc # "idle" =>
      /\ calls[c].ticketCalls = 1
      /\ calls[c].transportCalls <= 1
      /\ calls[c].openCalls <= calls[c].transportCalls
      /\ (calls[c].ticket = None => calls[c].pc = "done" /\ calls[c].result.threw
                                     /\ calls[c].result.name = "TicketExhausted"
                                     /\ calls[c].transportCalls = 0)
      /\ (TransportFailed(c) => calls[c].result.threw)
      /\ (calls[c].pc = "done" /\ calls[c].reply # None /\ calls[c].openCalls = 0) =>
            calls[c].result = Throw("ProtocolError")
      /\ (calls[c].openCalls = 1 /\ calls[c].decrypted.threw) => calls[c].result = calls[c].decrypted
      /\ (calls[c].pc = "done" /\ ~calls[c].result.threw) =>
            /\ calls[c].trace = CallOrder
            /\ ~calls[c].decrypted.threw
            /\ calls[c].result = interpretReply(calls[c].decrypted.value, calls[c].reply.status)

\* one call ended after its transport call rejected, the other after its
\* ticket source threw, each having asked the source once
NoAutomaticRetriesWitness ==
  /\ TransportFailed("A")
  /\ calls["A"].ticketCalls = 1 /\ calls["A"].transportCalls = 1
  /\ calls["B"].pc = "done" /\ calls["B"].ticket = None
  /\ calls["B"].ticketCalls = 1 /\ calls["B"].transportCalls = 0

(***************************************************************************)
(* Properties of padPayload / unpadPayload                                 *)
(***************************************************************************)
Fits == applied.targetLen >= 8 /\ Len(applied.payload) <= applied.targetLen - 8

\* C24: for every target length t >= 8 and every payload p of at most
\* t - 8 bytes, the request padded length of every class included,
\* padPayload(p, t) is t bytes long and unpadPayload of it is p
PaddingRoundtrip ==
  (applied # None /\ applied.fn = "padPayload" /\ Fits) =>
    /\ applied.padded # None =>
          /\ ~applied.padded.threw
          /\ BufLen(applied.padded.value) = applied.targetLen
    /\ applied.unpadded # None => applied.unpadded = Return(applied.payload)

\* the largest payload of class c256's request frame, padded and unpadded
PaddingRoundtripWitness ==
  /\ applied # None /\ applied.fn = "padPayload"
  /\ applied.targetLen = requestPaddedLen(C256)
  /\ Len(applied.payload) = applied.targetLen - 8
  /\ applied.unpadded # None
  /\ applied.unpadded = Return(applied.payload)

\* the byte of frame b at offset i, counted from 0 as the source counts
FrameByte(b, i) == BufAt(b, i + 1)

\* C34: padPayload(p, t) yields a frame whose bytes 0..3 are 'Z','K','L','G',
\* whose bytes 4..7 are len(p) as a little-endian unsigned 32-bit number,
\* whose bytes 8..8+len(p)-1 are p, and whose every remaining byte, at
\* offset 8+len(p)+k, is a space when k is even and a newline when k is odd
FrameLayout ==
  (applied # None /\ applied.fn = "padPayload" /\ applied.padded # None /\ ~applied.padded.threw) =>
    /\ FrameByte(applied.padded.value, 0) = 90
    /\ FrameByte(applied.padded.value, 1) = 75
    /\ FrameByte(applied.padded.value, 2) = 76
    /\ FrameByte(applied.padded.value, 3) = 71
    /\ FrameByte(applied.padded.value, 4) = Len(applied.payload) % 256
    /\ FrameByte(applied.padded.value, 5) = (Len(applied.payload) \div 256) % 256
    /\ FrameByte(applied.padded.value, 6) = (Len(applied.payload) \div 65536) % 256
    /\ FrameByte(applied.padded.value, 7) = (Len(applied.payload) \div 16777216) % 256
    /\ \A i \in 1..Len(applied.payload) :
         FrameByte(applied.padded.value, 8 + i - 1) = applied.payload[i]
    /\ \A k \in 0..(BufLen(applied.padded.value) - 8 - Len(applied.payload) - 1) :
         FrameByte(applied.padded.value, 8 + Len(applied.payload) + k) = (IF k % 2 = 0 THEN 32 ELSE 10)

\* a frame of a payload of odd length, ending in a newline, with a space
\* and a newline of filler behind it
FrameLayoutWitness ==
  /\ applied # None /\ applied.fn = "padPayload"
  /\ applied.payload = << 0, 255, 10 >>
  /\ applied.targetLen = 8 + 3 + 1
  /\ applied.padded # None
  /\ ~applied.padded.threw
  /\ BufLen(applied.padded.value) = 12

\* C25: padPayload(p, t) fails with InvalidPadding when t < 8; otherwise
\* it fails, with PayloadTooLarge carrying actual = len(p) and
\* limit = t - 8, exactly when len(p) > t - 8; a failure produces no frame
PaddingRefusal ==
  (applied # None /\ applied.fn = "padPayload" /\ applied.padded # None) =>
    /\ applied.targetLen < 8 => applied.padded = Throw("InvalidPadding")
    /\ (applied.targetLen >= 8 /\ Len(applied.payload) > applied.targetLen - 8) =>
          applied.padded = [threw |-> TRUE, name |-> "PayloadTooLarge",
                            actual |-> Len(applied.payload), limit |-> applied.targetLen - 8]
    /\ (applied.targetLen >= 8 /\ Len(applied.payload) <= applied.targetLen - 8) => ~applied.padded.threw
    /\ applied.padded.threw => (applied.unpadded = None /\ applied.frame = None)

\* one byte too many for class c256's request frame
PaddingRefusalWitness ==
  /\ applied # None /\ applied.fn = "padPayload" /\ applied.padded # None
  /\ applied.targetLen = requestPaddedLen(C256)
  /\ Len(applied.payload) = 8185
  /\ applied.padded.threw
  /\ applied.padded.name = "PayloadTooLarge"
  /\ applied.padded.actual = 8185 /\ applied.padded.limit = 8184

\* the numbers of 0..n whose four little-endian bytes are bytes 4..7 of b
DeclaredWithin(b, n) == {k \in 0..n : UInt32LE(k) = BufSlice(b, 5, 8)}

\* C26: unpadPayload fails with InvalidPadding when the buffer is shorter
\* than 8 bytes, when its first 4 bytes are not the tag ZKLG, or when the
\* declared little-endian length exceeds the buffer length - 8; otherwise
\* it returns exactly the declared number of bytes from offset 8 on
UnpadChecks ==
  (applied # None /\ applied.unpadded # None) =>
    IF BufLen(applied.frame) < 8 THEN applied.unpadded = Throw("InvalidPadding")
    ELSE IF BufSlice(applied.frame, 1, 4) # << 90, 75, 76, 71 >> THEN applied.unpadded = Throw("InvalidPadding")
    ELSE IF DeclaredWithin(applied.frame, BufLen(applied.frame) - 8) = {}
         THEN applied.unpadded = Throw("InvalidPadding")
    ELSE \A k \in DeclaredWithin(applied.frame, BufLen(applied.frame) - 8) :
           /\ ~applied.unpadded.threw
           /\ Len(applied.unpadded.value) = k
           /\ \A i \in 1..k : applied.unpadded.value[i] = BufAt(applied.frame, 8 + i)

\* a buffer not made by padPayload that declares 256 bytes and holds more
UnpadChecksWitness ==
  /\ applied # None /\ applied.fn = "unpadPayload" /\ applied.unpadded # None
  /\ BufSlice(applied.frame, 1, 8) = << 90, 75, 76, 71, 0, 1, 0, 0 >>
  /\ BufLen(applied.frame) > 264
  /\ ~applied.unpadded.threw
  /\ Len(applied.unpadded.value) = 256

(***************************************************************************)
(* Properties of normalizeEnvelope                                         *)
(***************************************************************************)
KeysOf(o) == {o.m[i].k : i \in 1..Len(o.m)}

EmittedKeys == {K_v, K_token_class, K_eph_pubkey_b64, K_nonce_b64, K_ciphertext_b64}

\* the value an object gives under a name or, the name being absent or
\* null, under its alias
Spelled(o, key, alias) ==
  IF HasKey(o, key) /\ Get(o, key) # JNull THEN Get(o, key)
  ELSE IF HasKey(o, alias) THEN Get(o, alias)
  ELSE Undefined

\* the input is an object with a number for the version and a string for
\* the ephemeral key, each under either spelling, and a class that parses
WellSpelled(input) ==
  /\ input.t = "obj"
  /\ Spelled(input, K_v, K_version).t = "num"
  /\ Spelled(input, K_eph_pubkey_b64, K_kem_pub_b64).t = "str"
  /\ ~parseTokenClass(ToStringJs(Get(input, K_token_class))).threw

\* C27: normalizeEnvelope accepts the version under v or version and the
\* ephemeral key under eph_pubkey_b64 or kem_pub_b64 and emits an envelope
\* using v and eph_pubkey_b64; normalizing a normalized envelope returns an
\* equal envelope; the envelopes of sealJson use only v and eph_pubkey_b64
EnvelopeAliasTolerance ==
  (applied # None /\ applied.fn = "normalizeEnvelope" /\ applied.normalized # None) =>
    /\ WellSpelled(applied.input) =>
          /\ ~applied.normalized.threw
          /\ KeysOf(applied.normalized.value) = EmittedKeys
          /\ Get(applied.normalized.value, K_v) = Spelled(applied.input, K_v, K_version)
          /\ Get(applied.normalized.value, K_eph_pubkey_b64)
                = Spelled(applied.input, K_eph_pubkey_b64, K_kem_pub_b64)
    /\ ~WellSpelled(applied.input) => applied.normalized.threw
    /\ applied.again # None => applied.again = applied.normalized
    /\ applied.origin = "sealJson" =>
          /\ KeysOf(applied.input) = EmittedKeys
          /\ applied.normalized = Return(applied.input)

\* an envelope that spells both fields by their aliases, normalized twice
EnvelopeAliasToleranceWitness ==
  /\ applied # None /\ applied.fn = "normalizeEnvelope"
  /\ applied.origin = "peer"
  /\ applied.input.t = "obj"
  /\ KeysOf(applied.input) \cap {K_v, K_eph_pubkey_b64} = {}
  /\ {K_version, K_kem_pub_b64} \subseteq KeysOf(applied.input)
  /\ applied.again # None
  /\ ~applied.again.threw
  /\ KeysOf(applied.again.value) = EmittedKeys

(***************************************************************************)
(* Properties of parseChatRequest                                          *)
(***************************************************************************)
\* an object with a string model and an array of messages
ChatShaped(v) == v.t = "obj" /\ Get(v, K_model).t = "str" /\ Get(v, K_messages).t = "arr"

\* the bodies of v, of its body, and so on
RECURSIVE Bodies(_)
Bodies(v) == IF v.t = "obj" /\ HasKey(v, K_body) THEN {Get(v, K_body)} \cup Bodies(Get(v, K_body)) ELSE {}

RECURSIVE Nesting(_)
Nesting(v) == IF v.t = "obj" /\ HasKey(v, K_body) THEN 1 + Nesting(Get(v, K_body)) ELSE 0

RECURSIVE Acceptable(_)
Acceptable(v) ==
  \/ ChatShaped(v)
  \/ /\ v.t = "obj"
     /\ HasKey(v, K_path) /\ Get(v, K_path) = JStr(ChatCompletionsPath)
     /\ HasKey(v, K_body) /\ Get(v, K_body).t = "obj"
     /\ Acceptable(Get(v, K_body))

\* C28: the coercion of the upstream payload accepts an object with a
\* string model and an array of messages, or a {path: "/v1/chat/completions",
\* body} object whose body is acceptable in turn, and rejects every other
\* shape with ProtocolError; it ends after at most one invocation per level
\* of nesting
UpstreamCoercion ==
  (applied # None /\ applied.fn = "parseChatRequest") =>
    /\ applied.invocations + Nesting(applied.input) <= Nesting(applied.upstream) + 1
    /\ applied.result = None => applied.invocations + Nesting(applied.input) = Nesting(applied.upstream)
    /\ applied.result # None =>
          /\ applied.result = parseChatRequest(applied.upstream)
          /\ Acceptable(applied.upstream) =>
                /\ ~applied.result.threw
                /\ ChatShaped(applied.result.value)
                /\ applied.result.value \in {applied.upstream} \cup Bodies(applied.upstream)
          /\ ~Acceptable(applied.upstream) => applied.result = Throw("ProtocolError")

\* a chat request inside two wrappers, accepted by the third invocation
UpstreamCoercionWitness ==
  /\ applied # None /\ applied.fn = "parseChatRequest"
  /\ Nesting(applied.upstream) = 2
  /\ ~ChatShaped(applied.upstream)
  /\ applied.invocations = 3
  /\ applied.result # None
  /\ ~applied.result.threw
  /\ ChatShaped(applied.result.value)

(***************************************************************************)
(* Properties of the size classes                                          *)
(***************************************************************************)
\* the classes of which a text without outer space is the name, in either
\* case, or the numeric suffix
NamedBy(core) ==
  {tc \in TokenClass : core = tc \/ core = << "C" >> \o SubSeq(tc, 2, Len(tc)) \/ << "c" >> \o core = tc}

\* C29: parseTokenClass accepts exactly the five symbolic names and their
\* bare numeric suffixes, in either case and with whitespace around them,
\* and raises InvalidTokenClass for every other text
TokenClassParsing ==
  (applied # None /\ applied.fn = "parseTokenClass" /\ applied.result # None) =>
    /\ \A tc \in NamedBy(applied.core) : applied.result = Return(tc)
    /\ NamedBy(applied.core) = {} => applied.result = Throw("InvalidTokenClass")

\* " C2048" with a line break before it
TokenClassParsingWitness ==
  /\ applied # None /\ applied.fn = "parseTokenClass"
  /\ applied.value = << "\n", " ", "C", "2", "0", "4", "8" >>
  /\ applied.result = Return(<< "c", "2", "0", "4", "8" >>)

\* the table of the claim, one row per class: id, request padded length,
\* response padded length, max-output hint
ClaimedRow(tc) ==
  CASE tc = << "c", "2", "5", "6" >> -> << 1, 8192, 8192, 256 >>
    [] tc = << "c", "5", "1", "2" >> -> << 2, 12288, 16384, 512 >>
    [] tc = << "c", "1", "0", "2", "4" >> -> << 3, 20480, 32768, 1024 >>
    [] tc = << "c", "2", "0", "4", "8" >> -> << 4, 36864, 65536, 2048 >>
    [] tc = << "c", "4", "0", "9", "6" >> -> << 5, 69632, 131072, 4096 >>

\* C30: the ids are 1..5 in the order c256, c512, c1024, c2048, c4096, the
\* request padded lengths 8192, 12288, 20480, 36864, 69632, the response
\* padded lengths 8192, 16384, 32768, 65536, 131072, the max-output hints
\* 256, 512, 1024, 2048, 4096; and for every class maxPromptBytes is at
\* most the request padded length - 8, which is at most the response
\* padded length
SizeClassTable ==
  (applied # None /\ applied.fn = "parseTokenClass" /\ applied.table # None) =>
    /\ << applied.table.tokenClassId, applied.table.requestPaddedLen,
          applied.table.responsePaddedLen, applied.table.maxOutputTokensHint >>
         = ClaimedRow(applied.result.value)
    /\ applied.table.maxPromptBytes <= applied.table.requestPaddedLen - 8
    /\ applied.table.requestPaddedLen <= applied.table.responsePaddedLen

\* the row of c4096
SizeClassTableWitness ==
  /\ applied # None /\ applied.fn = "parseTokenClass" /\ applied.table # None
  /\ applied.result.value = << "c", "4", "0", "9", "6" >>
  /\ applied.table.tokenClassId = 5
  /\ applied.table.requestPaddedLen = 69632
  /\ applied.table.maxPromptBytes = 32768

(***************************************************************************)
(* Properties of malformed and unrecognized pool entries                   *)
(***************************************************************************)
\* the i-th nextTicket call selected an entry
Selects(i) == issued[i].taken # None

\* the pool p holds the entry of file position id
Holds(p, id) == \E k \in 1..Len(p) : p[k].id = id

\* C35: when nextTicket selects an entry that fails normalization, having
\* neither nullifier nor nullifier_b64, the call throws TicketExhausted for
\* the invalid entry and the entry is out of the pool: no later call
\* selects it, and each call works on the pool the call before it left
MalformedEntryFailsOnce ==
  \A i \in 1..Len(issued) :
    OnFile(i) =>
      /\ i > 1 => issued[i].before = issued[i - 1].after
      /\ (Selects(i) /\ EntryNullifier(issued[i].taken) = << >>) =>
            /\ issued[i].result = TicketExhausted("invalid")
            /\ Len(issued[i].after) = Len(issued[i].before) - 1
            /\ ~Holds(issued[i].after, issued[i].taken.id)
            /\ ~Holds(tickets, issued[i].taken.id)
            /\ \A j \in (i + 1)..Len(issued) : Selects(j) => issued[j].taken.id # issued[i].taken.id

\* the entry without nullifier fails the first call for its class and the
\* second call for that class returns the entry that follows it
MalformedEntryFailsOnceWitness ==
  /\ source.kind = "file"
  /\ Len(issued) = 2
  /\ issued[1].tokenClass = issued[2].tokenClass
  /\ Selects(1) /\ EntryNullifier(issued[1].taken) = << >>
  /\ issued[1].taken.id = 1
  /\ issued[1].result = TicketExhausted("invalid")
  /\ Returned(2)
  /\ issued[2].taken.id = 2

\* the entry declares a class, and the class is none of the five
Unrecognized(raw) ==
  /\ Get(raw, K_token_class).t = "str"
  /\ Get(raw, K_token_class).s # << >>
  /\ \A c \in TokenClass : ~Declares([raw |-> raw], c)

\* C36: a pool entry whose declared class is present but not recognized
\* is never selected and never removed by any sequence of nextTicket
\* calls; a call that finds no exact and no untyped entry throws
\* TicketExhausted and leaves the pool's contents and order unchanged
UnrecognizedEntryStays ==
  source.kind = "file" =>
    /\ \A k \in 1..Len(source.file) :
         Unrecognized(source.file[k]) =>
           /\ Holds(tickets, k)
           /\ \A i \in 1..Len(issued) : Selects(i) => issued[i].taken.id # k
    /\ \A a \in 1..Len(tickets), b \in 1..Len(tickets) : a < b => tickets[a].id < tickets[b].id
    /\ \A i \in 1..Len(issued) :
         Preferred(issued[i].before, issued[i].tokenClass) = 0 =>
           /\ issued[i].result = TicketExhausted("exhausted")
           /\ issued[i].after = issued[i].before

\* a pool that still holds entries, the unrecognized one among them, has
\* none for the class asked for
UnrecognizedEntryStaysWitness ==
  /\ source.kind = "file"
  /\ Len(issued) = 2
  /\ Returned(1)
  /\ issued[2].result = TicketExhausted("exhausted")
  /\ Len(tickets) = 2
  /\ \E k \in 1..Len(tickets) : Unrecognized(tickets[k].raw)
  /\ issued[2].after = issued[2].before

(***************************************************************************)
(* Properties of the timeout timer                                         *)
(***************************************************************************)
\* the transport call of c has resolved or rejected, or was never made
Settled(call) == call.pc \in {"responded", "done"}

\* C37: on every path out of the transport call, resolved or rejected, the
\* timer is cleared: no timer of a settled or finished call is pending,
\* and the abort signal is not tripped once the transport call has settled
TimerClearedOnSettle ==
  [][\A c \in Calls :
       /\ Settled(calls'[c]) => calls'[c].timer # "armed"
       /\ Settled(calls[c]) => calls'[c].aborted = calls[c].aborted /\ calls'[c].timer = calls[c].timer]_vars

\* a call that ended with its reply read, its timer cleared and its
\* signal not tripped, although the timeout elapsed before the body came
TimerClearedOnSettleWitness ==
  /\ calls["A"].pc = "done"
  /\ calls["A"].reply # None
  /\ calls["A"].timer = "cleared"
  /\ calls["A"].elapsed
  /\ ~calls["A"].aborted

(***************************************************************************)
(* Properties of the key derivation                                        *)
(***************************************************************************)
KeyUses == TokenClass \X {KeyDirectionRequest, KeyDirectionResponse}

\* the AEAD result carried by the ciphertext field of an envelope
CipherOf(envelope) == Get(envelope, K_ciphertext_b64).b64of

\* C33: the HKDF info strings of two distinct (size class, direction) pairs
\* are distinct, so the two keys of a seal state are derived from different
\* inputs; sealJson encrypts under K_req with direction byte 1 only, and
\* openJson decrypts under K_resp with direction byte 2 only
KeySeparation ==
  /\ \A a \in KeyUses, b \in KeyUses : a # b => hkdfInfo(a[1], a[2]) # hkdfInfo(b[1], b[2])
  /\ (sealed # None /\ ~sealed.threw) =>
        /\ State.reqKey = deriveKey(State.reqKey.hkdf[1], State.tokenClass, KeyDirectionRequest)
        /\ State.respKey = deriveKey(State.reqKey.hkdf[1], State.tokenClass, KeyDirectionResponse)
        /\ State.reqKey.hkdf[3] # State.respKey.hkdf[3]
        /\ State.reqKey # State.respKey
        /\ CipherOf(sealed.value.envelope).aead[1] = State.reqKey
        /\ CipherOf(sealed.value.envelope).aead[1] # State.respKey
        /\ CipherOf(sealed.value.envelope).aead[3][3] = 1
  /\ (opened # None /\ ~opened.result.threw) =>
        /\ IsCipherText(Get(opened.input, K_ciphertext_b64))
        /\ CipherOf(opened.input).aead[1] = State.respKey
        /\ CipherOf(opened.input).aead[1] # State.reqKey
        /\ CipherOf(opened.input).aead[3][3] = 2

\* a reply sealed under the response key of the exchange was opened, and
\* the request sealed before it under the other key of the same secret
KeySeparationWitness ==
  /\ pc = "opened"
  /\ ~opened.result.threw
  /\ CipherOf(opened.input).aead[1] = State.respKey
  /\ CipherOf(sealed.value.envelope).aead[1] = State.reqKey
  /\ State.reqKey.hkdf[1] = State.respKey.hkdf[1]

(***************************************************************************)
(* Properties of max_tokens in the request payload                         *)
(***************************************************************************)
\* the chat request the caller handed to the entry point
CallerRequest == parseChatRequest(applied.req).value

\* C31: in the plaintext request payload that is sealed and sent,
\* max_tokens is the caller's value when one is given and otherwise the
\* max-output-tokens hint of the size class, whichever of inferJson,
\* inferJsonWithTicket and chatCompletions was called
MaxTokensDefaulted ==
  \A c \in Calls :
    (applied # None /\ calls[c].payload # None) =>
      Get(calls[c].payload, K_max_tokens) =
        (IF Get(CallerRequest, K_max_tokens) \in {Undefined, JNull}
         THEN JNum(maxOutputTokensHint(calls[c].tokenClass))
         ELSE Get(CallerRequest, K_max_tokens))

\* the same for calls of chatCompletions alone
MaxTokensDefaultedByChatCompletions ==
  (applied # None /\ applied.fn = "chatCompletions") => MaxTokensDefaulted

\* chatCompletions sent a request without max_tokens with the hint in it
MaxTokensDefaultedByChatCompletionsWitness ==
  /\ applied # None /\ applied.fn = "chatCompletions"
  /\ Get(applied.req, K_max_tokens) = Undefined
  /\ calls["A"].payload # None
  /\ calls["A"].transportCalls = 1
  /\ Get(calls["A"].payload, K_max_tokens) = JNum(maxOutputTokensHint(applied.tokenClass))

(***************************************************************************)
(* Properties of redactText / rehydrateText                                *)
(***************************************************************************)
Redacted == applied # None /\ applied.fn = "redactText" /\ applied.result # None

\* C32: for every input text and every list of registered terms
\* redactText ends, and rehydrateText of what it gave is the input
RedactionRoundtripAnyTerms ==
  Redacted =>
    /\ applied.result.ended
    /\ applied.rehydrated # None => applied.rehydrated.text = applied.input

\* the places of s where w stands
Stands(s, w) == {i \in 1..(Len(s) - Len(w) + 1) : StartsWith(s, i, w)}

\* redactText when the turn of the j-th term comes
TermsBefore(j) ==
  RedactTerms(applied.mode, applied.salt, SubSeq(applied.customTerms, 1, j - 1), 1,
              [out |-> applied.input, mapping |-> << >>, counter |-> 0])

\* the term stands in st.out at a place that overlaps a placeholder
TermOverlapsPlaceholder(st, term) ==
  \E p \in Stands(st.out, term), e \in 1..Len(st.mapping) :
    \E q \in Stands(st.out, st.mapping[e].k) : p < q + Len(st.mapping[e].k) /\ q < p + Len(term)

\* no term occurs, when its turn comes, at a place that overlaps a
\* placeholder put in for an earlier term
TermsSparePlaceholders ==
  \A j \in 1..Len(applied.customTerms) : ~TermOverlapsPlaceholder(TermsBefore(j), applied.customTerms[j])

\* C32, amended: for every input text and every list of registered terms
\* redactText ends; rehydrateText of what it gave is the input when no
\* term occurs, at its turn, at a place that overlaps a placeholder put in
\* for an earlier term
RedactionRoundtrip ==
  Redacted =>
    /\ applied.result.ended
    /\ (applied.rehydrated # None /\ TermsSparePlaceholders) => applied.rehydrated.text = applied.input

\* a key block with a registered term in it: the term's placeholder is
\* inside the text the block's placeholder stands for, and the text came
\* back
RedactionRoundtripWitness ==
  /\ Redacted
  /\ applied.customTerms = << Text_secret >>
  /\ Len(applied.result.map) = 2
  /\ applied.result.map[1].v = Text_secret
  /\ Includes(applied.result.map[2].v, applied.result.map[1].k)
  /\ applied.rehydrated # None
  /\ applied.rehydrated.text = applied.input
====
